---------------------------- MODULE Spec2Model ----------------------------
(***************************************************************************)
(* A model of lumi's command-dispatch core: the reply correlator           *)
(* (src/reply/send_reply.rs, src/structs/slash.rs), the edit tracker       *)
(* (src/track_edits.rs), the permission gate (src/dispatch/common.rs) and  *)
(* the prefix dispatcher (src/dispatch/prefix.rs, src/dispatch/mod.rs).    *)
(*                                                                         *)
(* Each component has its own specification over its own variables; the    *)
(* variables of the other components keep their initial value there. The   *)
(* dispatcher's specification also runs over the tracker's cache.          *)
(***************************************************************************)
EXTENDS Integers, Sequences, FiniteSets, TLC

VARIABLES
    \* ---- reply correlator, one slash invocation
    interaction_type,            \* ApplicationContext::interaction_type
    has_sent_initial_response,   \* ApplicationContext::has_sent_initial_response
    reply_mode,                  \* how the command body issues its replies
    reply_calls,                 \* the body's reply calls: position and result
    http_log,                    \* the requests issued to the platform, in order
    \* ---- edit tracker
    cache,                       \* EditTracker::cache
    max_duration,                \* EditTracker::max_duration, a Duration
    now,                         \* the clock purge reads, in seconds
    last,                        \* the last tracker call: arguments and return value
    \* ---- permission gate, one invocation
    gate_options,                \* FrameworkOptions, the fields the gate reads
    gate_ctx,                    \* Context: who invoked, where, and what lookups answer
    gate_chain,                  \* ctx.parent_commands() followed by ctx.command()
    gate_out,                    \* what check_permissions_and_cooldown returned
    \* ---- prefix dispatcher
    prefix_options,              \* FrameworkOptions::prefix_options
    tasks,                       \* the dispatch_event calls: position and record
    \* ---- the tracker's lock
    lock_holder,                 \* who holds the RwLock's write guard, if anyone
    lock_tasks,                  \* the tasks that use the tracker: position
    \* ---- cooldowns, slash invocations of one command
    cooldown_command,            \* the Command: manual_cooldowns override
    cooldown_tracker,            \* Command::cooldowns, the last invocation per user
    instant,                     \* Instant::now()
    invocations,                 \* the invocations: position, gate result
    \* ---- prefix resolver, one message
    strip_content,               \* msg.content
    strip_out,                   \* what strip_prefix and the dispatch returned
    \* ---- command tree lookup, one call
    find_args,                   \* find_command's remaining_message, case_insensitive, parent_commands
    find_out,                    \* what find_command returned, with parent_commands as it left it
    \* ---- qualified names, one command tree
    tree_commands,               \* FrameworkOptions::commands, names and qualified names
    tree_calls,                  \* how often set_qualified_names has run on it
    \* ---- the framework and its purge task
    fw_edit_tracker,             \* prefix_options.edit_tracker is Some
    fw_state,                    \* the Framework: built, initialized, dropped
    fw_purge_task,               \* Framework::edit_tracker_purge_task and the task's position
    fw_clock,                    \* the time, in seconds
    fw_purges,                   \* the purges performed: when, and whether after the drop
    fw_inflight                  \* the invocations still running

replyVars == <<interaction_type, has_sent_initial_response, reply_mode,
               reply_calls, http_log>>

trackerVars == <<cache, max_duration, now, last>>

gateVars == <<gate_options, gate_ctx, gate_chain, gate_out>>

dispatchVars == <<prefix_options, tasks>>

lockVars == <<lock_holder, lock_tasks>>

cooldownVars == <<cooldown_command, cooldown_tracker, instant, invocations>>

stripVars == <<strip_content, strip_out>>

findVars == <<find_args, find_out>>

treeVars == <<tree_commands, tree_calls>>

fwVars == <<fw_edit_tracker, fw_state, fw_purge_task, fw_clock, fw_purges, fw_inflight>>

vars == <<replyVars, trackerVars, gateVars, dispatchVars, lockVars, cooldownVars, stripVars, findVars, treeVars, fwVars>>

\* What the actions of one component leave alone. The dispatcher works on the
\* tracker's cache and reads the gate's options and context.
notReplyVars == <<trackerVars, gateVars, dispatchVars, lockVars, cooldownVars, stripVars, findVars, treeVars, fwVars>>
notTrackerVars == <<replyVars, gateVars, dispatchVars, lockVars, cooldownVars, stripVars, findVars, treeVars, fwVars>>
notGateVars == <<replyVars, trackerVars, dispatchVars, lockVars, cooldownVars, stripVars, findVars, treeVars, fwVars>>
notDispatchVars == <<replyVars, max_duration, now, last, gateVars, prefix_options, lockVars, cooldownVars, stripVars, findVars, treeVars, fwVars>>

notLockVars == <<replyVars, trackerVars, gateVars, dispatchVars, cooldownVars, stripVars, findVars, treeVars, fwVars>>
notStripVars == <<replyVars, trackerVars, gateVars, dispatchVars, lockVars, cooldownVars, findVars, treeVars, fwVars>>
notFindVars == <<replyVars, trackerVars, gateVars, dispatchVars, lockVars, cooldownVars, stripVars, treeVars, fwVars>>
notTreeVars == <<replyVars, trackerVars, gateVars, dispatchVars, lockVars, cooldownVars, stripVars, findVars, fwVars>>
notFwVars == <<replyVars, trackerVars, gateVars, dispatchVars, lockVars, cooldownVars, stripVars, findVars, treeVars>>
notCooldownVars == <<replyVars, trackerVars, gateVars, dispatchVars, lockVars, stripVars, findVars, treeVars, fwVars>>

\* Option<T>: None is the empty sequence, Some(x) the one-element sequence.
None == <<>>
Some(x) == <<x>>
IsSome(o) == o /= <<>>
Unwrap(o) == o[1]

(***************************************************************************)
(* REPLY CORRELATOR, structured/slash side.                                *)
(*                                                                         *)
(* A command body holds a Copy of its ApplicationContext and may await its *)
(* replies one after another or poll several of them together (join!).     *)
(* One reply call runs in two atomic steps, split at its only suspension   *)
(* point, the await of the HTTP request: Begin runs from the call to the   *)
(* issue of the request, Complete from the arrival of the platform's       *)
(* answer to the return.                                                   *)
(***************************************************************************)

\* The number of reply calls one command body makes.
MaxReplies == 3

Calls == 1..MaxReplies
ReplyOps == {"send", "defer"}
ReplyModes == {"sequential", "joined"}

IdleCall == [op |-> "send", pc |-> "idle", endpoint |-> "none", result |-> "none"]

\* Nobody else is between Begin and Complete.
NoCallInFlight == \A c \in Calls : reply_calls[c].pc /= "awaiting"

\* The body may start call c now: calls are started in program order, and a body
\* that awaits each reply before the next has none in flight.
MayBegin(c) ==
    /\ reply_calls[c].pc = "idle"
    /\ \A d \in Calls : d < c => reply_calls[d].pc /= "idle"
    /\ reply_mode = "sequential" => NoCallInFlight

\* A send that uses the initial-response endpoint whatever it loaded.
SendEndpoint_AlwaysInitial(loaded) == "create_response"

\* The endpoint send_application_reply picks from the value it loaded.
SendEndpoint(loaded) == IF loaded THEN "create_followup" ELSE "create_response"

\* send_application_reply up to its await: the autocomplete return, the load of
\* the flag, the choice of the endpoint and the issue of the request.
SendBegin(c) ==
    /\ MayBegin(c)
    /\ IF interaction_type = "Autocomplete"
       THEN /\ reply_calls' = [reply_calls EXCEPT ![c] =
                   [op |-> "send", pc |-> "done", endpoint |-> "none",
                    result |-> "sentinel"]]
            /\ UNCHANGED http_log
       ELSE LET ep == SendEndpoint(has_sent_initial_response) IN
            /\ reply_calls' = [reply_calls EXCEPT ![c] =
                   [op |-> "send", pc |-> "awaiting", endpoint |-> ep,
                    result |-> "none"]]
            /\ http_log' = Append(http_log, [call |-> c, op |-> "send", endpoint |-> ep])
    /\ UNCHANGED <<interaction_type, has_sent_initial_response, reply_mode>>
    /\ UNCHANGED notReplyVars

\* A send that never stores the flag.
FlagAfter_NoStore(flag, endpoint, ok) == flag

\* The flag after a send's request came back: the store follows a successful
\* create_response only.
FlagAfter(flag, endpoint, ok) ==
    IF ok /\ endpoint = "create_response" THEN TRUE ELSE flag

\* send_application_reply from the platform's answer on: `?` returns the error,
\* a successful initial response stores the flag.
SendComplete(c) ==
    /\ reply_calls[c].pc = "awaiting"
    /\ reply_calls[c].op = "send"
    /\ \E ok \in BOOLEAN :
        /\ reply_calls' = [reply_calls EXCEPT ![c].pc = "done",
                              ![c].result = IF ok THEN "ok" ELSE "err"]
        /\ has_sent_initial_response' =
               FlagAfter(has_sent_initial_response, reply_calls[c].endpoint, ok)
    /\ UNCHANGED <<interaction_type, reply_mode, http_log>>
    /\ UNCHANGED notReplyVars

\* defer_response up to its await: nothing is sent once the flag is set.
DeferBegin(c) ==
    /\ MayBegin(c)
    /\ IF has_sent_initial_response
       THEN /\ reply_calls' = [reply_calls EXCEPT ![c] =
                   [op |-> "defer", pc |-> "done", endpoint |-> "none",
                    result |-> "ok"]]
            /\ UNCHANGED http_log
       ELSE /\ reply_calls' = [reply_calls EXCEPT ![c] =
                   [op |-> "defer", pc |-> "awaiting",
                    endpoint |-> "create_response", result |-> "none"]]
            /\ http_log' = Append(http_log,
                   [call |-> c, op |-> "defer", endpoint |-> "create_response"])
    /\ UNCHANGED <<interaction_type, has_sent_initial_response, reply_mode>>
    /\ UNCHANGED notReplyVars

\* defer_response from the platform's answer on.
DeferComplete(c) ==
    /\ reply_calls[c].pc = "awaiting"
    /\ reply_calls[c].op = "defer"
    /\ \E ok \in BOOLEAN :
        /\ reply_calls' = [reply_calls EXCEPT ![c].pc = "done",
                              ![c].result = IF ok THEN "ok" ELSE "err"]
        /\ has_sent_initial_response' =
               IF ok THEN TRUE ELSE has_sent_initial_response
    /\ UNCHANGED <<interaction_type, reply_mode, http_log>>
    /\ UNCHANGED notReplyVars

\* dispatch_event creates the flag unset for every interaction; the interaction
\* is a command or an autocomplete one.
ReplyInit ==
    /\ interaction_type \in {"Command", "Autocomplete"}
    /\ has_sent_initial_response = FALSE
    /\ reply_mode \in ReplyModes
    /\ reply_calls = [c \in Calls |-> IdleCall]
    /\ http_log = <<>>

ReplyNext ==
    \/ \E c \in Calls : SendBegin(c)
    \/ \E c \in Calls : SendComplete(c)
    \/ \E c \in Calls : DeferBegin(c)
    \/ \E c \in Calls : DeferComplete(c)


(***************************************************************************)
(* EDIT TRACKER (src/track_edits.rs).                                      *)
(*                                                                         *)
(* The tracker lives in a std::sync::RwLock and every method takes         *)
(* &mut self or &self, so each call is one atomic step. The operators      *)
(* below are the methods as functions of the cache; the actions call them  *)
(* with arguments drawn from small sets, as any user of the public API may.*)
(***************************************************************************)

\* Message ids are 1..MaxMsgId.
MaxMsgId == 2
\* Timestamps and the clock are 0..MaxTime seconds.
MaxTime == 1
\* The cache is not grown beyond MaxCache entries.
MaxCache == 3

MsgIds == 1..MaxMsgId
Times == 0..MaxTime
Contents == {<<"!", "p", "i", "n", "g">>, <<"!", "p", "i", "n", "g", " ", "x">>}
BotMessages == {"r1", "r2"}

\* A message id is a snowflake: it fixes the creation time, and later ids are
\* not older.
CreatedAt(id) == IF id - 1 <= MaxTime THEN id - 1 ELSE MaxTime

\* serenity::Message, the fields the tracker reads. An edit is not older than
\* the message.
Messages ==
    {m \in [id : MsgIds, content : Contents, timestamp : Times,
            edited_timestamp : {None} \cup {Some(t) : t \in Times}] :
        /\ m.timestamp = CreatedAt(m.id)
        /\ m.edited_timestamp /= None => Unwrap(m.edited_timestamp) >= m.timestamp}

\* CachedInvocation
CachedInvocation(user_msg, bot_response, track_deletion) ==
    [user_msg |-> user_msg, bot_response |-> bot_response,
     track_deletion |-> track_deletion]

\* iter().position(|invocation| invocation.user_msg.id == id): the first match,
\* 0 for no match.
Position(c, id) ==
    IF \E i \in 1..Len(c) : c[i].user_msg.id = id
    THEN CHOOSE i \in 1..Len(c) :
            /\ c[i].user_msg.id = id
            /\ \A j \in 1..(i - 1) : c[j].user_msg.id /= id
    ELSE 0

\* Vec::remove(i)
RemoveAt(c, i) == [j \in 1..(Len(c) - 1) |-> IF j < i THEN c[j] ELSE c[j + 1]]

\* process_message_update without the comparison of the contents.
ProcessMessageUpdate_NoContentCheck(c, new_message, ignore_edits_if_not_yet_responded) ==
    LET i == Position(c, new_message.id) IN
    IF i /= 0
    THEN IF ignore_edits_if_not_yet_responded /\ c[i].bot_response = None
         THEN [cache |-> c, ret |-> None]
         ELSE [cache |-> [c EXCEPT ![i].user_msg = new_message], ret |-> Some(TRUE)]
    ELSE IF ignore_edits_if_not_yet_responded
         THEN [cache |-> c, ret |-> None]
         ELSE [cache |-> c, ret |-> Some(FALSE)]

\* process_message_update that takes an entry for tracked only once it has a
\* bot response.
ProcessMessageUpdate_TrackedByResponse(c, new_message, ignore_edits_if_not_yet_responded) ==
    LET i == Position(c, new_message.id) IN
    IF i /= 0 /\ c[i].bot_response /= None
    THEN IF new_message.content = c[i].user_msg.content
         THEN [cache |-> c, ret |-> None]
         ELSE [cache |-> [c EXCEPT ![i].user_msg = new_message], ret |-> Some(TRUE)]
    ELSE IF ignore_edits_if_not_yet_responded
         THEN [cache |-> c, ret |-> None]
         ELSE [cache |-> c, ret |-> Some(FALSE)]

\* process_message_update: the cache afterwards and the returned Option<bool>.
ProcessMessageUpdate(c, new_message, ignore_edits_if_not_yet_responded) ==
    LET i == Position(c, new_message.id) IN
    IF i /= 0
    THEN IF ignore_edits_if_not_yet_responded /\ c[i].bot_response = None
         THEN [cache |-> c, ret |-> None]
         ELSE IF new_message.content = c[i].user_msg.content
         THEN [cache |-> c, ret |-> None]
         ELSE [cache |-> [c EXCEPT ![i].user_msg = new_message], ret |-> Some(TRUE)]
    ELSE IF ignore_edits_if_not_yet_responded
         THEN [cache |-> c, ret |-> None]
         ELSE [cache |-> c, ret |-> Some(FALSE)]

\* process_message_delete that returns the bot response whatever track_deletion is.
ProcessMessageDelete_IgnoreFlag(c, deleted_message_id) ==
    LET i == Position(c, deleted_message_id) IN
    IF i = 0
    THEN [cache |-> c, ret |-> None]
    ELSE [cache |-> RemoveAt(c, i), ret |-> c[i].bot_response]

\* process_message_delete: the cache afterwards and the returned Option<Message>.
ProcessMessageDelete(c, deleted_message_id) ==
    LET i == Position(c, deleted_message_id) IN
    IF i = 0
    THEN [cache |-> c, ret |-> None]
    ELSE [cache |-> RemoveAt(c, i),
          ret |-> IF c[i].track_deletion THEN c[i].bot_response ELSE None]

\* The timestamp purge measures an entry's age from.
LastUpdate(user_msg) ==
    IF user_msg.edited_timestamp /= None
    THEN Unwrap(user_msg.edited_timestamp)
    ELSE user_msg.timestamp

\* u64 and i64 are DurationBits wide.
DurationBits == 3

\* std::time::Duration: whole seconds in u64 and whether there is a
\* sub-second part beside them.
Durations == [secs : 0..(2^DurationBits - 1), subsec : BOOLEAN]

\* Duration::from_secs
FromSecs(secs) == [secs |-> secs, subsec |-> FALSE]

\* Duration::as_secs: the whole seconds, the sub-second part dropped.
AsSecs(duration) == duration.secs

\* `as i64` of a u64: the same bits read in two's complement.
AsI64(n) == IF n >= 2^(DurationBits - 1) THEN n - 2^DurationBits ELSE n

\* A purge that removes only entries without a bot response.
Purge_KeepsResponded(c, clock, duration) ==
    SelectSeq(c, LAMBDA invocation :
        \/ invocation.bot_response /= None
        \/ clock - LastUpdate(invocation.user_msg) < AsI64(AsSecs(duration)))

\* purge: retain the entries whose age in seconds is below
\* max_duration.as_secs() as i64.
Purge(c, clock, duration) ==
    SelectSeq(c, LAMBDA invocation :
        clock - LastUpdate(invocation.user_msg) < AsI64(AsSecs(duration)))

\* find_bot_response
FindBotResponse(c, user_msg_id) ==
    LET i == Position(c, user_msg_id) IN
    IF i = 0 THEN None ELSE c[i].bot_response

\* set_bot_response that also stores its track_deletion argument in an existing entry.
SetBotResponse_OverwriteFlag(c, user_msg, bot_response, track_deletion) ==
    LET i == Position(c, user_msg.id) IN
    IF i /= 0
    THEN [c EXCEPT ![i].bot_response = Some(bot_response),
                   ![i].track_deletion = track_deletion]
    ELSE Append(c, CachedInvocation(user_msg, Some(bot_response), track_deletion))

\* set_bot_response
SetBotResponse(c, user_msg, bot_response, track_deletion) ==
    LET i == Position(c, user_msg.id) IN
    IF i /= 0
    THEN [c EXCEPT ![i].bot_response = Some(bot_response)]
    ELSE Append(c, CachedInvocation(user_msg, Some(bot_response), track_deletion))

\* track_command without the check for an existing entry.
TrackCommand_AlwaysPush(c, user_msg, track_deletion) ==
    Append(c, CachedInvocation(user_msg, None, track_deletion))

\* track_command that starts an existing entry afresh.
TrackCommand_Overwrite(c, user_msg, track_deletion) ==
    LET i == Position(c, user_msg.id) IN
    IF i = 0
    THEN Append(c, CachedInvocation(user_msg, None, track_deletion))
    ELSE [c EXCEPT ![i] = CachedInvocation(user_msg, None, track_deletion)]

\* track_command
TrackCommand(c, user_msg, track_deletion) ==
    IF ~\E i \in 1..Len(c) : c[i].user_msg.id = user_msg.id
    THEN Append(c, CachedInvocation(user_msg, None, track_deletion))
    ELSE c

\* The record of a tracker call: the method, the message id it was about, the
\* ignore_edits_if_not_yet_responded argument, whether the cache held an entry
\* of that message when it was called, and the value it returned.
Call(op, id, ignore, found, ret) ==
    [op |-> op, id |-> id, ignore |-> ignore, found |-> found, ret |-> ret]

HasEntry(c, id) == \E i \in 1..Len(c) : c[i].user_msg.id = id

\* EditTracker::for_timespan: an empty cache.
TrackerInit ==
    /\ cache = <<>>
    /\ max_duration \in {FromSecs(secs) : secs \in 1..MaxTime}
    /\ now = 0
    /\ last = Call("none", 0, FALSE, FALSE, None)

DoProcessMessageUpdate ==
    \E m \in Messages, ig \in BOOLEAN :
        LET r == ProcessMessageUpdate(cache, m, ig) IN
        /\ cache' = r.cache
        /\ last' = Call("process_message_update", m.id, ig, HasEntry(cache, m.id), r.ret)
        /\ UNCHANGED <<max_duration, now>>
        /\ UNCHANGED notTrackerVars

DoProcessMessageDelete ==
    \E id \in MsgIds :
        LET r == ProcessMessageDelete(cache, id) IN
        /\ cache' = r.cache
        /\ last' = Call("process_message_delete", id, FALSE, HasEntry(cache, id), r.ret)
        /\ UNCHANGED <<max_duration, now>>
        /\ UNCHANGED notTrackerVars

DoPurge ==
    /\ cache' = Purge(cache, now, max_duration)
    /\ last' = Call("purge", 0, FALSE, FALSE, None)
    /\ UNCHANGED <<max_duration, now>>
    /\ UNCHANGED notTrackerVars

DoSetBotResponse ==
    \E m \in Messages, b \in BotMessages, td \in BOOLEAN :
        /\ Len(SetBotResponse(cache, m, b, td)) <= MaxCache
        /\ cache' = SetBotResponse(cache, m, b, td)
        /\ last' = Call("set_bot_response", m.id, FALSE, HasEntry(cache, m.id), None)
        /\ UNCHANGED <<max_duration, now>>
        /\ UNCHANGED notTrackerVars

DoTrackCommand ==
    \E m \in Messages, td \in BOOLEAN :
        /\ Len(TrackCommand(cache, m, td)) <= MaxCache
        /\ cache' = TrackCommand(cache, m, td)
        /\ last' = Call("track_command", m.id, FALSE, HasEntry(cache, m.id), None)
        /\ UNCHANGED <<max_duration, now>>
        /\ UNCHANGED notTrackerVars

\* Time passes.
Tick ==
    /\ now < MaxTime
    /\ now' = now + 1
    /\ UNCHANGED <<cache, max_duration, last>>
    /\ UNCHANGED notTrackerVars

TrackerNext ==
    \/ DoProcessMessageUpdate
    \/ DoProcessMessageDelete
    \/ DoPurge
    \/ DoSetBotResponse
    \/ DoTrackCommand
    \/ Tick

\* The caches purge is called on: at most one entry per message, as the
\* tracker keeps it.
PurgeCaches ==
    LET entries == {CachedInvocation(m, b, TRUE) :
                       m \in Messages, b \in {None, Some("r1")}}
    IN  {<<>>} \cup {<<e>> : e \in entries}
        \cup {<<p[1], p[2]>> :
                 p \in {q \in entries \X entries : q[1].user_msg.id /= q[2].user_msg.id}}

\* A tracker of any timespan holding any such cache, at any time.
PurgeInit ==
    /\ cache \in PurgeCaches
    /\ max_duration \in Durations
    /\ now \in Times
    /\ last = Call("none", 0, FALSE, FALSE, None)

\* The purge task's call, and the passing of time.
PurgeNext ==
    \/ DoPurge
    \/ Tick

\* The purge task beside the dispatcher's calls over a stretch of time in
\* which every message and every edit of it outlives the timespan: the clock
\* runs to LiveMaxTime, the latest timestamp plus the longest timespan.
LiveMaxTime == MaxTime + 2^(DurationBits - 1) - 1

\* A tracker of any timespan of whole seconds, empty, at time 0.
LiveInit ==
    /\ cache = <<>>
    /\ max_duration \in {FromSecs(secs) : secs \in 0..(2^DurationBits - 1)}
    /\ now = 0
    /\ last = Call("none", 0, FALSE, FALSE, None)

\* Time passes.
LiveTick ==
    /\ now < LiveMaxTime
    /\ now' = now + 1
    /\ UNCHANGED <<cache, max_duration, last>>
    /\ UNCHANGED notTrackerVars

\* The purge task's call; `last` tells whether it removed an entry.
LivePurge ==
    /\ cache' = Purge(cache, now, max_duration)
    /\ last' = Call("purge", 0, FALSE, Purge(cache, now, max_duration) /= cache, None)
    /\ UNCHANGED <<max_duration, now>>
    /\ UNCHANGED notTrackerVars

\* dispatch_event's call of process_message_update for an edit.
LiveUpdate ==
    /\ \E m \in Messages :
           cache' = ProcessMessageUpdate(cache, m, FALSE).cache
    /\ UNCHANGED <<max_duration, now, last>>
    /\ UNCHANGED notTrackerVars

\* dispatch_event's call of process_message_delete.
LiveDelete ==
    /\ \E id \in MsgIds :
           cache' = ProcessMessageDelete(cache, id).cache
    /\ UNCHANGED <<max_duration, now, last>>
    /\ UNCHANGED notTrackerVars

\* send_prefix_reply's call of set_bot_response.
LiveSetBotResponse ==
    /\ \E m \in Messages :
           cache' = SetBotResponse(cache, m, "r1", TRUE)
    /\ Len(cache') <= MaxCache
    /\ UNCHANGED <<max_duration, now, last>>
    /\ UNCHANGED notTrackerVars

\* run_invocation's call of track_command.
LiveTrackCommand ==
    /\ \E m \in Messages :
           cache' = TrackCommand(cache, m, TRUE)
    /\ Len(cache') <= MaxCache
    /\ UNCHANGED <<max_duration, now, last>>
    /\ UNCHANGED notTrackerVars

\* The purge task's call, the passing of time and the calls invocations and
\* events make on the tracker.
LiveNext ==
    \/ LivePurge
    \/ LiveTick
    \/ LiveUpdate
    \/ LiveDelete
    \/ LiveSetBotResponse
    \/ LiveTrackCommand

(***************************************************************************)
(* COMMANDS (src/structs/command.rs).                                      *)
(***************************************************************************)

Permissions == {"SEND_MESSAGES", "SEND_MESSAGES_IN_THREADS", "MANAGE_MESSAGES"}

\* Command::default(): no action, no restriction, no subcommand. checks holds
\* what each check callback answers for the invocation at hand: "true",
\* "false" or "err". cooldowns holds what the command's CooldownTracker
\* answers remaining_cooldown with: None, or Some(seconds left).
\* prefix_action is None or Some of what the command's body does: the number
\* of replies it sends and how it ends, "Ok", "Err" or "panic".
DefaultCommand ==
    [name |-> <<>>, aliases |-> <<>>, subcommands |-> <<>>,
     prefix_action |-> None, subcommand_required |-> FALSE,
     has_modifier |-> FALSE, invoke_on_edit |-> FALSE,
     track_deletion |-> FALSE, reuse_response |-> FALSE,
     manual_cooldowns |-> None, cooldowns |-> None,
     required_permissions |-> {}, required_bot_permissions |-> {},
     owners_only |-> FALSE, guild_only |-> FALSE, dm_only |-> FALSE,
     nsfw_only |-> FALSE, checks |-> <<>>, on_error |-> None]

(***************************************************************************)
(* STRINGS. A str is the sequence of its characters.                       *)
(***************************************************************************)

\* char::is_whitespace, within the characters modelled.
Whitespace == {" ", "\t"}

UpperCase == <<"A", "B", "C", "D", "E", "F", "G", "H", "I", "J", "K", "L", "M",
               "N", "O", "P", "Q", "R", "S", "T", "U", "V", "W", "X", "Y", "Z">>
LowerCase == <<"a", "b", "c", "d", "e", "f", "g", "h", "i", "j", "k", "l", "m",
               "n", "o", "p", "q", "r", "s", "t", "u", "v", "w", "x", "y", "z">>

\* char::to_ascii_lowercase
ToAsciiLowercase(ch) ==
    IF \E i \in 1..Len(UpperCase) : UpperCase[i] = ch
    THEN LowerCase[CHOOSE i \in 1..Len(UpperCase) : UpperCase[i] = ch]
    ELSE ch

\* str::eq_ignore_ascii_case
EqIgnoreAsciiCase(a, b) ==
    /\ Len(a) = Len(b)
    /\ \A i \in 1..Len(a) : ToAsciiLowercase(a[i]) = ToAsciiLowercase(b[i])

\* &s[n..]
Drop(str, n) == SubSeq(str, n + 1, Len(str))

\* str::starts_with
StrStartsWith(str, prefix) ==
    Len(prefix) <= Len(str) /\ SubSeq(str, 1, Len(prefix)) = prefix

\* str::strip_prefix
StrStripPrefix(str, prefix) ==
    IF StrStartsWith(str, prefix) THEN Some(Drop(str, Len(prefix))) ELSE None

\* The number of leading characters of str that are in chars.
LeadingRun(str, chars) ==
    IF \E i \in 1..Len(str) : str[i] \notin chars
    THEN (CHOOSE i \in 1..Len(str) :
            str[i] \notin chars /\ \A j \in 1..(i - 1) : str[j] \in chars) - 1
    ELSE Len(str)

\* str::trim_start
TrimStart(str) == Drop(str, LeadingRun(str, Whitespace))

\* str::trim_start_matches(ch)
TrimStartMatches(str, ch) == Drop(str, LeadingRun(str, {ch}))

\* str::splitn(2, char::is_whitespace): the part before the first whitespace
\* character and, if there is one, the part after it.
SplitN2(str) ==
    LET n == LeadingRun(str, {str[i] : i \in 1..Len(str)} \ Whitespace) IN
    IF n = Len(str)
    THEN [first |-> str, second |-> None]
    ELSE [first |-> SubSeq(str, 1, n), second |-> Some(Drop(str, n + 1))]

(***************************************************************************)
(* COMMAND TREE LOOKUP (src/dispatch/prefix.rs, find_command).             *)
(*                                                                         *)
(* A &Command is the path of sibling positions that leads to it from the   *)
(* top-level command list.                                                 *)
(***************************************************************************)

\* The answers of starts_with: (matches, mod_chars), or a panic.
StartsWithAnswer(matches, mod_chars, panics) ==
    [matches |-> matches, mod_chars |-> mod_chars, panics |-> panics]

\* starts_with_ignore_ascii_case
StartsWithIgnoreAsciiCase(needle, haystack) ==
    IF /\ Len(needle) <= Len(haystack)
       /\ \A i \in 1..Len(needle) :
              ToAsciiLowercase(haystack[i]) = ToAsciiLowercase(needle[i])
    THEN StartsWithAnswer(TRUE, Drop(haystack, Len(needle)), FALSE)
    ELSE StartsWithAnswer(FALSE, <<>>, FALSE)

\* starts_with. The case-sensitive branch slices the needle from the length of
\* the haystack, &needle[haystack.len()..], which panics when the haystack is
\* longer than the needle it starts with.
StartsWith(needle, haystack, case_insensitive) ==
    IF case_insensitive
    THEN StartsWithIgnoreAsciiCase(needle, haystack)
    ELSE IF StrStartsWith(haystack, needle)
    THEN IF Len(haystack) > Len(needle)
         THEN StartsWithAnswer(FALSE, <<>>, TRUE)
         ELSE StartsWithAnswer(TRUE, Drop(needle, Len(haystack)), FALSE)
    ELSE StartsWithAnswer(FALSE, <<>>, FALSE)

\* string_equal
StringEqual(a, b, case_insensitive) ==
    IF case_insensitive THEN EqIgnoreAsciiCase(a, b) ELSE a = b

\* aliases.iter().find_map(starts_with) from alias i on.
RECURSIVE AliasModifierMatch(_, _, _, _)
AliasModifierMatch(aliases, i, command_name, case_insensitive) ==
    IF i > Len(aliases)
    THEN StartsWithAnswer(FALSE, <<>>, FALSE)
    ELSE LET a == StartsWith(aliases[i], command_name, case_insensitive) IN
         IF a.panics \/ a.matches
         THEN a
         ELSE AliasModifierMatch(aliases, i + 1, command_name, case_insensitive)

\* The test of one command against the token by its name alone.
MatchCommand_NameOnly(command, command_name, case_insensitive) ==
    IF command.has_modifier /\ command.subcommands = <<>>
    THEN StartsWith(command.name, command_name, case_insensitive)
    ELSE StartsWithAnswer(StringEqual(command.name, command_name, case_insensitive),
                          <<>>, FALSE)

\* The loop body's test of one command against the token: whether the name
\* or an alias matches, and the modifier characters.
MatchCommand(command, command_name, case_insensitive) ==
    IF command.has_modifier /\ command.subcommands = <<>>
    THEN LET primary == StartsWith(command.name, command_name, case_insensitive) IN
         IF primary.panics \/ primary.matches
         THEN primary
         ELSE AliasModifierMatch(command.aliases, 1, command_name, case_insensitive)
    ELSE StartsWithAnswer(
             \/ StringEqual(command.name, command_name, case_insensitive)
             \/ \E i \in 1..Len(command.aliases) :
                    StringEqual(command.aliases[i], command_name, case_insensitive),
             <<>>, FALSE)

\* The answers of find_command: None, Some((command, mod_chars,
\* invoked_command_name, args)) with the parent_commands it leaves, or a panic.
NotFound ==
    [kind |-> "None", command |-> <<>>, mod_chars |-> <<>>,
     invoked_command_name |-> <<>>, args |-> <<>>, parent_commands |-> <<>>]

\* Some(..) of a find_command that leaves the matched command on parent_commands.
Found_ParentKept(command, mod_chars, invoked_command_name, args, parent_commands) ==
    [kind |-> "Some", command |-> command, mod_chars |-> mod_chars,
     invoked_command_name |-> invoked_command_name, args |-> args,
     parent_commands |-> Append(parent_commands, command)]

\* Some(..) of a find_command that empties parent_commands.
Found_ParentsCleared(command, mod_chars, invoked_command_name, args, parent_commands) ==
    [kind |-> "Some", command |-> command, mod_chars |-> mod_chars,
     invoked_command_name |-> invoked_command_name, args |-> args,
     parent_commands |-> <<>>]

Found(command, mod_chars, invoked_command_name, args, parent_commands) ==
    [kind |-> "Some", command |-> command, mod_chars |-> mod_chars,
     invoked_command_name |-> invoked_command_name, args |-> args,
     parent_commands |-> parent_commands]

Panicked == [NotFound EXCEPT !.kind = "panic"]

\* find_command on the sibling list `commands`, whose members have the paths
\* base \o <<i>>; FindFrom is its loop from sibling i on.
RECURSIVE FindCommand(_, _, _, _, _)
RECURSIVE FindFrom(_, _, _, _, _, _, _)
FindFrom(commands, base, i, command_name, remaining_message, case_insensitive, parent_commands) ==
    IF i > Len(commands)
    THEN [NotFound EXCEPT !.parent_commands = parent_commands]
    ELSE LET m == MatchCommand(commands[i], command_name, case_insensitive) IN
         IF m.panics THEN Panicked
         ELSE IF ~m.matches
         THEN FindFrom(commands, base, i + 1, command_name, remaining_message,
                       case_insensitive, parent_commands)
         ELSE LET deeper == FindCommand(commands[i].subcommands, base \o <<i>>,
                                        remaining_message, case_insensitive,
                                        Append(parent_commands, base \o <<i>>))
              IN  IF deeper.kind = "None"
                  THEN Found(base \o <<i>>, m.mod_chars, command_name,
                             remaining_message, parent_commands)
                  ELSE deeper

FindCommand(commands, base, remaining_message, case_insensitive, parent_commands) ==
    LET split == SplitN2(remaining_message)
        rest == IF split.second = None THEN <<>> ELSE TrimStart(Unwrap(split.second))
    IN  FindFrom(commands, base, 1, split.first, rest, case_insensitive, parent_commands)

\* The command a path refers to; no command for the empty path.
RECURSIVE CommandAt(_, _)
CommandAt(commands, path) ==
    IF path = <<>>
    THEN DefaultCommand
    ELSE IF Len(path) = 1
    THEN commands[path[1]]
    ELSE CommandAt(commands[path[1]].subcommands, Tail(path))

(***************************************************************************)
(* PREFIX RESOLVER (src/dispatch/prefix.rs, strip_prefix).                 *)
(***************************************************************************)

\* Regex::find for a pattern that is an alternation of literals: the leftmost
\* match, and among the alternatives matching there the first. None, or
\* Some of the match's start and end.
RegexFind(alternatives, str) ==
    LET MatchesAt(k) ==
            {a \in 1..Len(alternatives) : StrStartsWith(Drop(str, k), alternatives[a])}
        starts == {k \in 0..Len(str) : MatchesAt(k) /= {}}
    IN  IF starts = {} THEN None
        ELSE LET k == CHOOSE k \in starts : \A j \in starts : k <= j
                 a == CHOOSE a \in MatchesAt(k) : \A b \in MatchesAt(k) : a <= b
             IN  Some([start |-> k, end |-> k + Len(alternatives[a])])

\* One entry of additional_prefixes against the content: Some((prefix, rest)) or None.
MatchAdditionalPrefix(prefix, content) ==
    IF prefix.kind = "Literal"
    THEN IF StrStartsWith(content, prefix.literal)
         THEN Some([prefix |-> prefix.literal, content |-> Drop(content, Len(prefix.literal))])
         ELSE None
    ELSE LET regex_match == RegexFind(prefix.alternatives, content) IN
         IF regex_match /= None /\ Unwrap(regex_match).start = 0
         THEN Some([prefix |-> SubSeq(content, 1, Unwrap(regex_match).end),
                    content |-> Drop(content, Unwrap(regex_match).end)])
         ELSE None

\* A variant of the scan that returns the last entry that matches.
FindAdditionalPrefix_LastMatch(prefixes, i, content) ==
    LET matching == {k \in i..Len(prefixes) : MatchAdditionalPrefix(prefixes[k], content) /= None}
    IN  IF matching = {} THEN None
        ELSE MatchAdditionalPrefix(
                 prefixes[CHOOSE k \in matching : \A j \in matching : j <= k], content)

\* additional_prefixes.iter().find_map(..) from entry i on.
RECURSIVE FindAdditionalPrefix(_, _, _)
FindAdditionalPrefix(prefixes, i, content) ==
    IF i > Len(prefixes) THEN None
    ELSE IF MatchAdditionalPrefix(prefixes[i], content) /= None
    THEN MatchAdditionalPrefix(prefixes[i], content)
    ELSE FindAdditionalPrefix(prefixes, i + 1, content)

\* The mention strategy: "<@", any number of '!', the bot's id, ">".
StripMention(content, bot_id) ==
    LET a == StrStripPrefix(content, <<"<", "@">>) IN
    IF a = None THEN None
    ELSE LET b == StrStripPrefix(TrimStartMatches(Unwrap(a), "!"), bot_id) IN
         IF b = None THEN None
         ELSE StrStripPrefix(Unwrap(b), <<">">>)

\* strip_prefix: the Option<(prefix, rest)> returned, the strategies consulted
\* in order and the number of DynamicPrefix errors passed to on_error.
\* dynamic_prefix and stripped_dynamic_prefix are None when not configured and
\* else Some of the callback's answer: "err" or its Ok value.
StripPrefix(options, content) ==
    LET R(result, consulted, errors) ==
            [result |-> result, consulted |-> consulted, errors |-> errors]
        dyn == options.dynamic_prefix
        dynConsulted == IF dyn = None THEN <<>> ELSE <<"dynamic_prefix">>
        dynErrors == IF dyn /= None /\ Unwrap(dyn).answer = "err" THEN 1 ELSE 0
        additional == FindAdditionalPrefix(options.additional_prefixes, 1, content)
        sdyn == options.stripped_dynamic_prefix
        c2 == dynConsulted \o (IF options.prefix = None THEN <<>> ELSE <<"prefix">>)
        c3 == c2 \o (IF options.additional_prefixes = <<>> THEN <<>>
                     ELSE <<"additional_prefixes">>)
        c4 == c3 \o (IF sdyn = None THEN <<>> ELSE <<"stripped_dynamic_prefix">>)
        sdynErrors == IF sdyn /= None /\ Unwrap(sdyn).answer = "err" THEN 1 ELSE 0
        mention == StripMention(content, options.bot_id)
    IN
    IF /\ dyn /= None
       /\ Unwrap(dyn).answer = "Some"
       /\ StrStartsWith(content, Unwrap(dyn).prefix)
    THEN R(Some([prefix |-> Unwrap(dyn).prefix,
                 content |-> Drop(content, Len(Unwrap(dyn).prefix))]),
           dynConsulted, 0)
    ELSE IF /\ options.prefix /= None
            /\ StrStartsWith(content, Unwrap(options.prefix))
    THEN R(Some([prefix |-> Unwrap(options.prefix),
                 content |-> Drop(content, Len(Unwrap(options.prefix)))]),
           c2, dynErrors)
    ELSE IF additional /= None
    THEN R(additional, c3, dynErrors)
    ELSE IF sdyn /= None /\ Unwrap(sdyn).answer = "Some"
    THEN R(Some([prefix |-> Unwrap(sdyn).prefix, content |-> Unwrap(sdyn).content]),
           c4, dynErrors)
    ELSE IF options.mention_as_prefix /\ mention /= None
    THEN R(Some([prefix |-> SubSeq(content, 1, Len(content) - Len(Unwrap(mention))),
                 content |-> Unwrap(mention)]),
           c4 \o <<"mention_as_prefix">>, dynErrors + sdynErrors)
    ELSE R(None,
           c4 \o (IF options.mention_as_prefix THEN <<"mention_as_prefix">> ELSE <<>>),
           dynErrors + sdynErrors)

(***************************************************************************)
(* PERMISSION AND COOLDOWN GATE (src/dispatch/common.rs,                   *)
(* src/dispatch/permissions.rs).                                           *)
(*                                                                         *)
(* The gate reads and never writes, so it is a function of the options,    *)
(* the context and the command chain. Beside its result it yields the list *)
(* of the steps it evaluated, in order.                                    *)
(***************************************************************************)

\* FrameworkError, the variants the gate returns. Every error has the same
\* fields; missing_permissions, remaining_cooldown and error are set by the
\* variants that carry them.
GateError(kind, cmd) ==
    [kind |-> kind, command |-> cmd.name, missing_permissions |-> None,
     remaining_cooldown |-> None, error |-> None]

\* Result::Ok(())
Ok == [kind |-> "Ok", command |-> <<>>, missing_permissions |-> None,
       remaining_cooldown |-> None, error |-> None]

\* Permissions::dm_permissions(), within the permissions modelled.
DmPermissions == {"SEND_MESSAGES"}

IsThread(channel) == channel \in {"ThreadNsfwParent", "ThreadPlainParent", "ThreadNoParent"}

\* A check_nsfw_channel that lets a channel it cannot resolve pass.
CheckNsfwChannel_UnresolvedPasses(ctx) ==
    ctx.channel \notin {"GuildPlain", "ThreadPlainParent"}

\* check_nsfw_channel
CheckNsfwChannel(ctx) ==
    CASE ctx.channel = "Private" -> TRUE
      [] ctx.channel = "GuildNsfw" -> TRUE
      [] ctx.channel = "GuildPlain" -> FALSE
      [] ctx.channel = "ThreadNsfwParent" -> TRUE
      [] ctx.channel = "ThreadPlainParent" -> FALSE
      [] OTHER -> FALSE

\* Permissions::set(SEND_MESSAGES, send_messages_in_threads())
ThreadSendOverride(perms) ==
    IF "SEND_MESSAGES_IN_THREADS" \in perms
    THEN perms \cup {"SEND_MESSAGES"}
    ELSE perms \ {"SEND_MESSAGES"}

\* get_author_and_bot_permissions: None when a lookup failed, else the two
\* Option<Permissions>.
GetAuthorAndBotPermissions(ctx, skip_author, skip_bot) ==
    IF ctx.guild_id = None
    THEN Some([author_permissions |-> Some(DmPermissions),
               bot_permissions |-> Some(DmPermissions)])
    ELSE IF ctx.kind = "Application"
    THEN Some([author_permissions |->
                   Some(IF IsThread(ctx.channel)
                        THEN ThreadSendOverride(Unwrap(ctx.author_permissions))
                        ELSE Unwrap(ctx.author_permissions)),
               bot_permissions |->
                   Some(IF IsThread(ctx.channel)
                        THEN ThreadSendOverride(Unwrap(ctx.bot_permissions))
                        ELSE Unwrap(ctx.bot_permissions))])
    ELSE IF ~ctx.guild_cached THEN None
    ELSE IF ~skip_author /\ ctx.author_permissions = None THEN None
    ELSE IF ~skip_bot /\ ctx.bot_permissions = None THEN None
    ELSE Some([author_permissions |->
                   IF skip_author THEN None ELSE ctx.author_permissions,
               bot_permissions |->
                   IF skip_bot THEN None
                   ELSE IF IsThread(ctx.channel)
                   THEN Some(ThreadSendOverride(Unwrap(ctx.bot_permissions)))
                   ELSE ctx.bot_permissions])

\* A variant that subtracts the required permissions from the actual ones.
CalculateMissing_Reversed(ctx, author_required, bot_required) ==
    IF author_required = {} /\ bot_required = {}
    THEN Some([author |-> {}, bot |-> {}])
    ELSE LET p == GetAuthorAndBotPermissions(ctx, author_required = {}, bot_required = {}) IN
         IF p = None THEN None
         ELSE Some([author |-> IF Unwrap(p).author_permissions = None THEN {}
                               ELSE Unwrap(Unwrap(p).author_permissions) \ author_required,
                    bot |-> IF Unwrap(p).bot_permissions = None THEN {}
                            ELSE Unwrap(Unwrap(p).bot_permissions) \ bot_required])

\* calculate_missing: None, or Some of the two deficits.
CalculateMissing(ctx, author_required, bot_required) ==
    IF author_required = {} /\ bot_required = {}
    THEN Some([author |-> {}, bot |-> {}])
    ELSE LET p == GetAuthorAndBotPermissions(ctx, author_required = {}, bot_required = {}) IN
         IF p = None THEN None
         ELSE Some([author |-> IF Unwrap(p).author_permissions = None THEN {}
                               ELSE author_required \ Unwrap(Unwrap(p).author_permissions),
                    bot |-> IF Unwrap(p).bot_permissions = None THEN {}
                            ELSE bot_required \ Unwrap(Unwrap(p).bot_permissions)])

\* A variant that runs the node's callbacks before the global one.
ChecksOf_NodeFirst(options, cmd) == cmd.checks \o options.command_check

\* The check callbacks of one node: the global command_check, then cmd.checks.
ChecksOf(options, cmd) == options.command_check \o cmd.checks

\* The first callback that does not answer "true", 0 when all do.
FirstFailingCheck(checks) ==
    IF \E i \in 1..Len(checks) : checks[i] /= "true"
    THEN CHOOSE i \in 1..Len(checks) :
            checks[i] /= "true" /\ \A j \in 1..(i - 1) : checks[j] = "true"
    ELSE 0

\* The names under which the evaluation of callbacks 1..n is listed.
CheckSteps(n) == [i \in 1..n |-> <<"check", i>>]

\* A variant of the owner shortcut that disregards the switch.
SkipsChecks_AnyOwner(options, ctx) == ctx.author_is_owner

\* The owner shortcut: skip_checks_for_owners is set and the author is an owner.
SkipsChecks(options, ctx) == options.skip_checks_for_owners /\ ctx.author_is_owner

\* check_permissions_and_cooldown_single: the result and the steps evaluated.
CheckSingle(options, ctx, cmd) ==
    LET missing == CalculateMissing(ctx, cmd.required_permissions,
                                    cmd.required_bot_permissions)
        checks == ChecksOf(options, cmd)
        failing == FirstFailingCheck(checks)
        R(result, steps) == [result |-> result, steps |-> steps]
        s1 == <<<<"owners_only", 0>>>>
        s2 == s1 \o <<<<"guild_only", 0>>>>
        s3 == s2 \o <<<<"dm_only", 0>>>>
        s4 == s3 \o <<<<"nsfw_only", 0>>>>
        s5 == s4 \o <<<<"permissions", 0>>>>
    IN
    IF SkipsChecks(options, ctx)
    THEN R(Ok, <<<<"skip_checks_for_owners", 0>>>>)
    ELSE IF cmd.owners_only /\ ~ctx.author_is_owner
    THEN R(GateError("NotAnOwner", cmd), s1)
    ELSE IF cmd.guild_only /\
            (ctx.guild_id = None \/
             (options.require_cache_for_guild_check /\ ~ctx.guild_cached))
    THEN R(GateError("GuildOnly", cmd), s2)
    ELSE IF cmd.dm_only /\ ctx.guild_id /= None
    THEN R(GateError("DmOnly", cmd), s3)
    ELSE IF cmd.nsfw_only /\ ~CheckNsfwChannel(ctx)
    THEN R(GateError("NsfwOnly", cmd), s4)
    ELSE IF missing = None
    THEN R(GateError("PermissionFetchFailed", cmd), s5)
    ELSE IF Unwrap(missing).author /= {}
    THEN R([GateError("MissingUserPermissions", cmd) EXCEPT
               !.missing_permissions = Some(Unwrap(missing).author)], s5)
    ELSE IF Unwrap(missing).bot /= {}
    THEN R([GateError("MissingBotPermissions", cmd) EXCEPT
               !.missing_permissions = Some(Unwrap(missing).bot)], s5)
    ELSE IF failing /= 0
    THEN R([GateError("CommandCheckFailed", cmd) EXCEPT
               !.error = IF checks[failing] = "err" THEN Some("err") ELSE None],
           s5 \o CheckSteps(failing))
    ELSE IF ~options.manual_cooldowns /\ cmd.cooldowns /= None
    THEN R([GateError("CooldownHit", cmd) EXCEPT
               !.remaining_cooldown = cmd.cooldowns],
           s5 \o CheckSteps(Len(checks)) \o <<<<"cooldown", 0>>>>)
    ELSE R(Ok, s5 \o CheckSteps(Len(checks)) \o
               (IF options.manual_cooldowns THEN <<>> ELSE <<<<"cooldown", 0>>>>))

\* check_permissions_and_cooldown over chain[from..]: the parents in order,
\* then the command; `?` returns the first error. The result, and for every
\* node checked its name and the steps evaluated on it.
RECURSIVE CheckFrom(_, _, _, _)
CheckFrom(options, ctx, chain, from) ==
    IF from > Len(chain)
    THEN [result |-> Ok, checked |-> <<>>]
    ELSE LET one == CheckSingle(options, ctx, chain[from])
             here == <<[node |-> from, steps |-> one.steps]>>
         IN  IF one.result.kind /= "Ok"
             THEN [result |-> one.result, checked |-> here]
             ELSE LET rest == CheckFrom(options, ctx, chain, from + 1) IN
                  [result |-> rest.result, checked |-> here \o rest.checked]

\* A gate that checks the resolved command alone.
CheckPermissionsAndCooldown_LeafOnly(options, ctx, chain) ==
    CheckFrom(options, ctx, chain, Len(chain))

CheckPermissionsAndCooldown(options, ctx, chain) == CheckFrom(options, ctx, chain, 1)

\* A chain holds at most MaxChain nodes: the parents and the command.
MaxChain == 2

\* Nodes to build chains from: one per restriction, one free of any, and one
\* with several.
GateNodes ==
    {[DefaultCommand EXCEPT !.name = <<"f">>],
     [DefaultCommand EXCEPT !.name = <<"o">>, !.owners_only = TRUE],
     [DefaultCommand EXCEPT !.name = <<"g">>, !.guild_only = TRUE],
     [DefaultCommand EXCEPT !.name = <<"d">>, !.dm_only = TRUE],
     [DefaultCommand EXCEPT !.name = <<"n">>, !.nsfw_only = TRUE],
     [DefaultCommand EXCEPT !.name = <<"p">>,
         !.required_permissions = {"MANAGE_MESSAGES"},
         !.required_bot_permissions = {"SEND_MESSAGES"}],
     [DefaultCommand EXCEPT !.name = <<"c">>, !.checks = <<"true", "false">>],
     [DefaultCommand EXCEPT !.name = <<"t">>, !.cooldowns = Some(1)],
     [DefaultCommand EXCEPT !.name = <<"x">>, !.guild_only = TRUE,
         !.nsfw_only = TRUE, !.checks = <<"err">>, !.cooldowns = Some(1)]}

GateChains == UNION {[1..n -> GateNodes] : n \in 1..MaxChain}

\* What the permission lookups answer for the author and the bot.
GatePermissionAnswers ==
    {<<None, None>>, <<Some(Permissions), Some(Permissions)>>,
     <<Some({"SEND_MESSAGES"}), Some(Permissions)>>,
     <<Some(Permissions), Some({"SEND_MESSAGES_IN_THREADS"})>>,
     <<Some({"SEND_MESSAGES"}), Some({"SEND_MESSAGES_IN_THREADS"})>>}

\* The invocation contexts: a DM, or a guild channel or thread.
GateContexts ==
    {c \in [kind : {"Prefix", "Application"}, author_is_owner : BOOLEAN,
            guild_id : {None, Some(1)}, guild_cached : BOOLEAN,
            channel : {"Private", "GuildNsfw", "GuildPlain", "ThreadNsfwParent",
                       "ThreadPlainParent", "ThreadNoParent", "Unresolved"},
            author_permissions : {p[1] : p \in GatePermissionAnswers},
            bot_permissions : {p[2] : p \in GatePermissionAnswers}] :
        /\ <<c.author_permissions, c.bot_permissions>> \in GatePermissionAnswers
        /\ (c.guild_id = None) <=> (c.channel = "Private")
        /\ c.guild_id = None => ~c.guild_cached
        /\ c.kind = "Application" =>
               c.author_permissions /= None /\ c.bot_permissions /= None}

\* FrameworkOptions, the fields the gate reads. command_check is the list of
\* the global callback's answer, empty when none is configured.
GateOptions ==
    [skip_checks_for_owners : BOOLEAN, require_cache_for_guild_check : BOOLEAN,
     manual_cooldowns : BOOLEAN,
     command_check : {<<>>, <<"true">>, <<"false">>, <<"err">>}]

GateInit ==
    /\ gate_options \in GateOptions
    /\ gate_ctx \in GateContexts
    /\ gate_chain \in GateChains
    /\ gate_out = None

\* run_invocation's call of the gate.
GateRun ==
    /\ gate_out = None
    /\ gate_out' = Some(CheckPermissionsAndCooldown(gate_options, gate_ctx, gate_chain))
    /\ UNCHANGED <<gate_options, gate_ctx, gate_chain>>
    /\ UNCHANGED notGateVars

GateNext == GateRun

(***************************************************************************)
(* PREFIX DISPATCHER (src/dispatch/mod.rs, src/dispatch/prefix.rs) and the *)
(* prefix side of the reply correlator (src/reply/send_reply.rs).          *)
(*                                                                         *)
(* Every gateway event is handled by its own call of dispatch_event; the   *)
(* calls run concurrently and share the edit tracker. A call runs in       *)
(* atomic steps split where it suspends with the tracker unlocked: after   *)
(* the gate, inside the pre_command hook, at the HTTP request of a reply,  *)
(* and inside the command's body.                                          *)
(***************************************************************************)

\* At most MaxTasks events are dispatched.
MaxTasks == 2

TaskIds == 1..MaxTasks

\* The registered commands, in registration order.
Commands ==
    <<[DefaultCommand EXCEPT !.name = <<"p", "i", "n", "g">>,
          !.prefix_action = Some([replies |-> 2, returns |-> "Ok"]),
          !.invoke_on_edit = TRUE, !.track_deletion = TRUE, !.reuse_response = TRUE],
      [DefaultCommand EXCEPT !.name = <<"c", "o", "n", "f", "i", "g">>,
          !.aliases = <<<<"c", "f", "g">>>>,
          !.prefix_action = Some([replies |-> 0, returns |-> "panic"]),
          !.guild_only = TRUE, !.on_error = Some("config"),
          !.subcommands =
              <<[DefaultCommand EXCEPT !.name = <<"s", "h", "o", "w">>,
                    !.prefix_action = Some([replies |-> 1, returns |-> "Ok"]),
                    !.invoke_on_edit = TRUE]>>],
      [DefaultCommand EXCEPT !.name = <<"o", "n", "c", "e">>,
          !.prefix_action = Some([replies |-> 0, returns |-> "Err"]),
          !.on_error = Some("once")],
      [DefaultCommand EXCEPT !.name = <<"s", "l", "a", "s", "h">>],
      [DefaultCommand EXCEPT !.name = <<"m", "e", "n", "u">>,
          !.prefix_action = Some([replies |-> 0, returns |-> "Ok"]),
          !.subcommand_required = TRUE,
          !.subcommands =
              <<[DefaultCommand EXCEPT !.name = <<"a">>,
                    !.prefix_action = Some([replies |-> 0, returns |-> "Ok"])]>>],
      [DefaultCommand EXCEPT !.name = <<"b", "a", "n">>,
          !.prefix_action = Some([replies |-> 0, returns |-> "Ok"]),
          !.has_modifier = TRUE]>>

\* What users write.
MessageContents ==
    {<<"!", "p", "i", "n", "g">>,
     <<"!", "p", "i", "n", "g", " ", "x">>,
     <<"?", "p", "i", "n", "g">>,
     <<"!", "c", "f", "g", " ", "s", "h", "o", "w">>,
     <<"!", "c", "f", "g">>,
     <<"!", "o", "n", "c", "e">>,
     <<"!", "s", "l", "a", "s", "h">>,
     <<"!", "m", "e", "n", "u">>,
     <<"!", "b", "a", "n", "x">>,
     <<"!", "n", "o", "p", "e">>,
     <<"h", "i">>}

\* serenity::Message as the dispatcher reads it. The author is a user, another
\* bot, or the bot itself.
UserMessage(id, content, author, kind, edited) ==
    [id |-> id, content |-> content, timestamp |-> CreatedAt(id),
     edited_timestamp |-> IF edited THEN Some(CreatedAt(id)) ELSE None,
     author |-> author, kind |-> kind]

\* The messages that arrive: what users write, and "!ping" from each author
\* and of each kind the filters look at.
ArrivingMessages(edited) ==
    {UserMessage(id, content, "user", "Regular", edited) :
        id \in MsgIds, content \in MessageContents}
    \cup {UserMessage(MaxMsgId, <<"!", "p", "i", "n", "g">>, a, "Regular", edited) :
            a \in {"bot", "self"}}
    \cup {UserMessage(MaxMsgId, <<"!", "p", "i", "n", "g">>, "user", "ThreadCreated", edited)}

\* User::bot()
IsBot(author) == author \in {"bot", "self"}

\* parse_invocation's filters on the author and the kind of the message.
PassesFilters(options, msg) ==
    /\ ~(IsBot(msg.author) /\ options.ignore_bots)
    /\ ~(msg.author = "self" /\ ~options.execute_self_messages)
    /\ ~(msg.kind = "ThreadCreated" /\ options.ignore_thread_creation)

\* parse_invocation: Ok(None), Ok(Some(ctx)), Err(UnknownCommand) or a panic,
\* with the prefix stripped, the answer of find_command and the number of
\* DynamicPrefix errors reported on the way.
ParseInvocation(options, commands, msg) ==
    LET R(kind, prefix, msg_content, invocation, dynamic_errors) ==
            [kind |-> kind, prefix |-> prefix, msg_content |-> msg_content,
             invocation |-> invocation, dynamic_errors |-> dynamic_errors]
        stripped == StripPrefix(options, msg.content)
        split == Unwrap(stripped.result)
        msg_content == TrimStart(split.content)
        found == FindCommand(commands, <<>>, msg_content,
                             options.case_insensitive_commands, <<>>)
    IN
    IF ~PassesFilters(options, msg) THEN R("None", <<>>, <<>>, NotFound, 0)
    ELSE IF stripped.result = None THEN R("None", <<>>, <<>>, NotFound, stripped.errors)
    ELSE IF found.kind = "panic"
    THEN R("panic", split.prefix, msg_content, found, stripped.errors)
    ELSE IF found.kind = "None"
    THEN R("Err", split.prefix, msg_content, found, stripped.errors)
    ELSE IF CommandAt(commands, found.command).prefix_action = None
    THEN R("None", split.prefix, msg_content, found, stripped.errors)
    ELSE R("Some", split.prefix, msg_content, found, stripped.errors)

\* run_invocation's first two tests without the one on MessageEditFromInvalid.
DisregardsInvocation_NoUntrackedTest(options, command, trigger) ==
    trigger = "MessageEdit" /\ ~command.invoke_on_edit

\* run_invocation's first two tests without the one on invoke_on_edit.
DisregardsInvocation_NoTrackedTest(options, command, trigger) ==
    trigger = "MessageEditFromInvalid" /\ ~options.execute_untracked_edits

\* run_invocation's first two tests: whether an invocation triggered by an
\* edit is disregarded.
DisregardsInvocation(options, command, trigger) ==
    \/ trigger = "MessageEdit" /\ ~command.invoke_on_edit
    \/ trigger = "MessageEditFromInvalid" /\ ~options.execute_untracked_edits

\* The chain the gate checks: ctx.parent_commands(), then ctx.command().
InvocationChain(commands, invocation) ==
    [i \in 1..(Len(invocation.parent_commands) + 1) |->
        IF i <= Len(invocation.parent_commands)
        THEN CommandAt(commands, invocation.parent_commands[i])
        ELSE CommandAt(commands, invocation.command)]

\* The record of one dispatch_event call.
IdleTask ==
    [pc |-> "idle", event |-> "none", msg |-> None, deleted_message_id |-> None,
     trigger |-> "none", had_entry |-> FALSE, update |-> None, parsed |-> "none", prefix |-> <<>>,
     msg_content |-> <<>>, invocation |-> NotFound, trace |-> <<>>, errors |-> <<>>,
     handled_by |-> <<>>,
     existing_response |-> None, replies |-> 0]

\* A variant that drops the errors of the prefix callbacks.
DynamicPrefixErrors_Dropped(n) == <<>>

\* [N; DynamicPrefix]
DynamicPrefixErrors(n) == [i \in 1..n |-> "DynamicPrefix"]

\* FrameworkError::ctx: whether the error carries a Context.
HasCtx(error) ==
    error \notin {"UnknownCommand", "UnknownInteraction", "NonCommandMessage", "DynamicPrefix"}

\* A variant of handle that always calls the global on_error.
Handle_GlobalOnly(task, error, command) ==
    [task EXCEPT !.errors = Append(@, error), !.handled_by = Append(@, "global")]

\* FrameworkError::handle for an error of the invocation of `command` (any
\* command for an error without Context): on_error is the command's when the
\* error carries a Context and the command defines one, else the global one,
\* and is called once. handled_by lists the handler of each error of errors.
Handle(task, error, command) ==
    [task EXCEPT !.errors = Append(@, error),
                 !.handled_by = Append(@, IF HasCtx(error) /\ command.on_error /= None
                                          THEN "command" ELSE "global")]

\* A parse_invocation that found no command, handled as a message without a
\* command.
UnknownCommandError_AsNonCommand(options, task) ==
    [task EXCEPT !.pc = "done",
                 !.trace = IF options.non_command_message
                           THEN <<"non_command_message">> ELSE <<>>]

\* Err(UnknownCommand { msg, prefix, msg_content, .. }) out of parse_invocation
\* and dispatch_message, handled by dispatch_event: the task's prefix and
\* msg_content are the error's.
UnknownCommandError(options, task) ==
    [Handle(task, "UnknownCommand", DefaultCommand) EXCEPT !.pc = "done"]

\* dispatch_message from the return of parse_invocation, which returned
\* `parsed`, to the first suspension after the gate: the record of task `task`
\* afterwards. error.handle is the append to errors.
DispatchParsed(options, framework_options, ctx, commands, task, msg, trigger, parsed) ==
    LET command == CommandAt(commands, parsed.invocation.command)
        gate == CheckPermissionsAndCooldown(framework_options, ctx,
                    InvocationChain(commands, parsed.invocation))
        started == [task EXCEPT !.msg = Some(msg), !.trigger = trigger,
                                !.parsed = parsed.kind, !.prefix = parsed.prefix,
                                !.msg_content = parsed.msg_content,
                                !.invocation = parsed.invocation,
                                !.errors = DynamicPrefixErrors(parsed.dynamic_errors),
                                !.handled_by =
                                    [i \in 1..Len(DynamicPrefixErrors(parsed.dynamic_errors))
                                        |-> "global"]]
        Done(t) == [t EXCEPT !.pc = "done"]
        Failed(t, error) == [Handle(t, error, command) EXCEPT !.pc = "done"]
    IN
    IF parsed.kind = "panic" THEN [started EXCEPT !.pc = "panicked"]
    ELSE IF parsed.kind = "Err" THEN UnknownCommandError(options, started)
    ELSE IF parsed.kind = "None"
    THEN IF options.non_command_message
         THEN IF options.non_command_message_fails
              THEN Failed([started EXCEPT !.trace = <<"non_command_message">>],
                          "NonCommandMessage")
              ELSE Done([started EXCEPT !.trace = <<"non_command_message">>])
         ELSE Done(started)
    ELSE IF DisregardsInvocation(options, command, trigger) THEN Done(started)
    ELSE IF command.subcommand_required THEN Failed(started, "SubcommandRequired")
    ELSE IF gate.result.kind /= "Ok"
    THEN Failed([started EXCEPT !.trace = <<"check_permissions_and_cooldown">>],
                gate.result.kind)
    ELSE [started EXCEPT !.pc = "gated", !.trace = <<"check_permissions_and_cooldown">>]

\* dispatch_message from its call to the first suspension after the gate.
DispatchMessage(options, framework_options, ctx, commands, task, msg, trigger) ==
    DispatchParsed(options, framework_options, ctx, commands, task, msg, trigger,
                   ParseInvocation(options, commands, msg))

\* PrefixFrameworkOptions as the dispatcher reads it. edit_tracker and
\* non_command_message tell whether one is configured, and
\* non_command_message_fails whether the callback returns Err.
BasePrefixOptions ==
    [prefix |-> Some(<<"!">>), dynamic_prefix |-> None, additional_prefixes |-> <<>>,
     stripped_dynamic_prefix |-> None, mention_as_prefix |-> TRUE, bot_id |-> <<"7">>,
     case_insensitive_commands |-> TRUE, ignore_bots |-> TRUE,
     execute_self_messages |-> FALSE, ignore_thread_creation |-> TRUE,
     execute_untracked_edits |-> TRUE, ignore_edits_if_not_yet_responded |-> FALSE,
     edit_tracker |-> TRUE, non_command_message |-> FALSE,
     non_command_message_fails |-> FALSE]

\* The configurations dispatched under: every setting of the two edit
\* policies, no edit tracker, the filters off, case-sensitive lookup, "?" as
\* an additional prefix beside failing prefix callbacks, and a failing
\* non_command_message callback.
PrefixOptionSets ==
    {[BasePrefixOptions EXCEPT !.execute_untracked_edits = u,
                               !.ignore_edits_if_not_yet_responded = i] :
        u \in BOOLEAN, i \in BOOLEAN}
    \cup {[BasePrefixOptions EXCEPT !.edit_tracker = FALSE],
          [BasePrefixOptions EXCEPT !.ignore_bots = FALSE,
                                    !.execute_self_messages = TRUE,
                                    !.ignore_thread_creation = FALSE],
          [BasePrefixOptions EXCEPT !.case_insensitive_commands = FALSE,
                                    !.execute_untracked_edits = FALSE],
          [BasePrefixOptions EXCEPT
              !.dynamic_prefix = Some([answer |-> "err", prefix |-> <<>>]),
              !.stripped_dynamic_prefix =
                  Some([answer |-> "err", prefix |-> <<>>, content |-> <<>>]),
              !.additional_prefixes =
                  <<[kind |-> "Literal", literal |-> <<"?">>, alternatives |-> <<>>]>>,
              !.execute_untracked_edits = FALSE,
              !.non_command_message = TRUE],
          [BasePrefixOptions EXCEPT !.execute_untracked_edits = FALSE,
                                    !.non_command_message = TRUE,
                                    !.non_command_message_fails = TRUE]}

\* Where the messages come from: a DM, or a channel of a cached guild.
DmContext ==
    [kind |-> "Prefix", author_is_owner |-> FALSE, guild_id |-> None,
     guild_cached |-> FALSE, channel |-> "Private",
     author_permissions |-> None, bot_permissions |-> None]

GuildContext ==
    [kind |-> "Prefix", author_is_owner |-> FALSE, guild_id |-> Some(1),
     guild_cached |-> TRUE, channel |-> "GuildPlain",
     author_permissions |-> Some(Permissions), bot_permissions |-> Some(Permissions)]

\* FrameworkOptions::default(), the fields the gate reads.
DefaultFrameworkOptions ==
    [skip_checks_for_owners |-> FALSE, require_cache_for_guild_check |-> FALSE,
     manual_cooldowns |-> FALSE, command_check |-> <<>>]

DispatchInit ==
    /\ prefix_options \in PrefixOptionSets
    /\ gate_ctx \in {DmContext, GuildContext}
    /\ gate_ctx = GuildContext => prefix_options = BasePrefixOptions
    /\ gate_options = DefaultFrameworkOptions
    /\ gate_chain = <<>>
    /\ gate_out = None
    /\ tasks = [t \in TaskIds |-> IdleTask]
    /\ cache = <<>>
    /\ max_duration = FromSecs(1)
    /\ now = 0
    /\ last = Call("none", 0, FALSE, FALSE, None)

\* Task t is the next dispatch_event call to be made.
MayDispatch(t) ==
    /\ tasks[t].pc = "idle"
    /\ \A u \in 1..(t - 1) : tasks[u].pc /= "idle"

\* ctx.command of a task past parse_invocation.
CommandOf(t) == CommandAt(Commands, tasks[t].invocation.command)

\* dispatch_event, FullEvent::Message.
OnMessage(t) ==
    /\ MayDispatch(t)
    /\ \E m \in ArrivingMessages(FALSE) :
       \E parsed \in {ParseInvocation(prefix_options, Commands, m)} :
           tasks' = [tasks EXCEPT ![t] =
               DispatchParsed(prefix_options, gate_options, gate_ctx, Commands,
                              [IdleTask EXCEPT !.event = "Message"], m, "MessageCreate",
                              parsed)]
    /\ cache' = cache
    /\ UNCHANGED notDispatchVars

\* dispatch_event, FullEvent::MessageUpdate. r is what process_message_update
\* returns and parsed what parse_invocation returns if it is called.
OnMessageUpdate(t) ==
    /\ MayDispatch(t)
    /\ \E m \in ArrivingMessages(TRUE) :
       \E r \in {ProcessMessageUpdate(cache, m,
                     prefix_options.ignore_edits_if_not_yet_responded)} :
       \E parsed \in {ParseInvocation(prefix_options, Commands, m)} :
           LET begun == [IdleTask EXCEPT !.event = "MessageUpdate", !.msg = Some(m)]
               updated == [begun EXCEPT !.had_entry = HasEntry(cache, m.id),
                                        !.update = Some(r.ret)]
           IN  IF ~prefix_options.edit_tracker
               THEN /\ tasks' = [tasks EXCEPT ![t] = [begun EXCEPT !.pc = "done"]]
                    /\ cache' = cache
               ELSE /\ cache' = r.cache
                    /\ tasks' = [tasks EXCEPT ![t] =
                           IF r.ret = None
                           THEN [updated EXCEPT !.pc = "done"]
                           ELSE DispatchParsed(prefix_options, gate_options, gate_ctx,
                                    Commands, updated, m,
                                    IF Unwrap(r.ret) THEN "MessageEdit"
                                    ELSE "MessageEditFromInvalid", parsed)]
    /\ UNCHANGED notDispatchVars

\* dispatch_event, FullEvent::MessageDelete.
OnMessageDelete(t) ==
    /\ MayDispatch(t)
    /\ \E id \in MsgIds :
           LET r == ProcessMessageDelete(cache, id)
               begun == [IdleTask EXCEPT !.event = "MessageDelete", !.pc = "done",
                                         !.deleted_message_id = Some(id)]
           IN  IF ~prefix_options.edit_tracker
               THEN /\ tasks' = [tasks EXCEPT ![t] = begun]
                    /\ cache' = cache
               ELSE /\ cache' = r.cache
                    /\ tasks' = [tasks EXCEPT ![t] =
                           [begun EXCEPT !.had_entry = HasEntry(cache, id),
                                         !.trace = IF r.ret = None THEN <<>>
                                                   ELSE <<"delete_response">>]]
    /\ UNCHANGED notDispatchVars

\* A run_invocation that registers the message before the pre_command hook.
RunInvocationSteps_TrackFirst(edit_tracker) ==
    (IF edit_tracker THEN <<"track_command">> ELSE <<>>) \o <<"pre_command", "action">>

\* What run_invocation does between the gate and the return of the action:
\* the pre_command hook, track_command when there is an edit tracker, and the
\* call of the action.
RunInvocationSteps(edit_tracker) ==
    <<"pre_command">> \o (IF edit_tracker THEN <<"track_command">> ELSE <<>>)
        \o <<"action">>

\* run_invocation from the pre_command hook to the call of the action.
RunCommand(t) ==
    /\ tasks[t].pc = "gated"
    /\ cache' = IF prefix_options.edit_tracker
                THEN TrackCommand(cache, Unwrap(tasks[t].msg), CommandOf(t).track_deletion)
                ELSE cache
    /\ tasks' = [tasks EXCEPT ![t].pc = "action",
                              ![t].trace = @ \o RunInvocationSteps(prefix_options.edit_tracker)]
    /\ UNCHANGED notDispatchVars

\* The message send_message creates for task t.
NewResponse(t) == t

\* A variant of the lookup that disregards the command's reuse_response.
ReplyBegin_IgnoreReuseFlag(t) ==
    /\ tasks[t].pc = "action"
    /\ tasks[t].replies < Unwrap(CommandOf(t).prefix_action).replies
    /\ LET existing_response ==
               IF prefix_options.edit_tracker
               THEN FindBotResponse(cache, Unwrap(tasks[t].msg).id)
               ELSE None
       IN  tasks' = [tasks EXCEPT ![t].pc = "replying",
                                  ![t].existing_response = existing_response,
                                  ![t].trace = Append(@, IF existing_response /= None
                                                         THEN "edit" ELSE "send_message")]
    /\ cache' = cache
    /\ UNCHANGED notDispatchVars

\* send_prefix_reply up to its HTTP request: with reuse_response the tracked
\* response is edited, else a message is sent.
ReplyBegin(t) ==
    /\ tasks[t].pc = "action"
    /\ tasks[t].replies < Unwrap(CommandOf(t).prefix_action).replies
    /\ LET existing_response ==
               IF CommandOf(t).reuse_response /\ prefix_options.edit_tracker
               THEN FindBotResponse(cache, Unwrap(tasks[t].msg).id)
               ELSE None
       IN  tasks' = [tasks EXCEPT ![t].pc = "replying",
                                  ![t].existing_response = existing_response,
                                  ![t].trace = Append(@, IF existing_response /= None
                                                         THEN "edit" ELSE "send_message")]
    /\ cache' = cache
    /\ UNCHANGED notDispatchVars

\* send_prefix_reply from the platform's answer on. The response created for
\* task t is message t. A failed request ends the body with its error.
ReplyComplete(t) ==
    /\ tasks[t].pc = "replying"
    /\ \E ok \in BOOLEAN :
           LET response == IF tasks[t].existing_response /= None
                           THEN Unwrap(tasks[t].existing_response)
                           ELSE NewResponse(t)
           IN  IF ok
               THEN /\ cache' = IF prefix_options.edit_tracker
                                THEN SetBotResponse(cache, Unwrap(tasks[t].msg), response,
                                                    CommandOf(t).track_deletion)
                                ELSE cache
                    /\ tasks' = [tasks EXCEPT ![t].pc = "action", ![t].replies = @ + 1]
               ELSE /\ cache' = cache
                    /\ tasks' = [tasks EXCEPT ![t] =
                                    [Handle(@, "Command", CommandOf(t)) EXCEPT !.pc = "done"]]
    /\ UNCHANGED notDispatchVars

\* A catch_unwind_maybe that lets the panic unwind.
CatchUnwindMaybe_Unwinds(returns) == returns

\* catch_unwind_maybe(run_invocation(ctx)): the future's result, a panic of
\* the future caught and returned as Err(payload).
CatchUnwindMaybe(returns) == IF returns = "panic" THEN "Err(payload)" ELSE returns

\* The end of the action: Ok runs post_command, Err is handled as a Command
\* error, a caught panic is handled as CommandPanic; a panic that is not
\* caught unwinds the task.
ActionReturn(t) ==
    /\ tasks[t].pc = "action"
    /\ tasks[t].replies = Unwrap(CommandOf(t).prefix_action).replies
    /\ LET returns == CatchUnwindMaybe(Unwrap(CommandOf(t).prefix_action).returns) IN
       tasks' = [tasks EXCEPT ![t] =
           CASE returns = "Ok" ->
                    [@ EXCEPT !.pc = "done", !.trace = Append(@, "post_command")]
             [] returns = "Err" ->
                    [Handle(@, "Command", CommandOf(t)) EXCEPT !.pc = "done"]
             [] returns = "Err(payload)" ->
                    [Handle(@, "CommandPanic", CommandOf(t)) EXCEPT !.pc = "done"]
             [] OTHER -> [@ EXCEPT !.pc = "panicked"]]
    /\ cache' = cache
    /\ UNCHANGED notDispatchVars

DispatchNext ==
    \/ \E t \in TaskIds : OnMessage(t)
    \/ \E t \in TaskIds : OnMessageUpdate(t)
    \/ \E t \in TaskIds : OnMessageDelete(t)
    \/ \E t \in TaskIds : RunCommand(t)
    \/ \E t \in TaskIds : ReplyBegin(t)
    \/ \E t \in TaskIds : ReplyComplete(t)
    \/ \E t \in TaskIds : ActionReturn(t)

\* The configurations the resolver is run under: each strategy absent, failing,
\* declining or matching, with prefixes that overlap.
StripOptionSets ==
    {[BasePrefixOptions EXCEPT !.dynamic_prefix = dyn, !.prefix = static,
                               !.additional_prefixes = additional,
                               !.stripped_dynamic_prefix = stripped,
                               !.mention_as_prefix = mention,
                               !.non_command_message = mention] :
        dyn \in {None, Some([answer |-> "err", prefix |-> <<>>]),
                 Some([answer |-> "None", prefix |-> <<>>]),
                 Some([answer |-> "Some", prefix |-> <<"!">>]),
                 Some([answer |-> "Some", prefix |-> <<"$">>])},
        static \in {None, Some(<<"!">>), Some(<<"?">>)},
        additional \in
            {<<>>,
             <<[kind |-> "Literal", literal |-> <<"?">>, alternatives |-> <<>>]>>,
             <<[kind |-> "Regex", literal |-> <<>>,
                alternatives |-> <<<<"!", "!">>, <<"!">>>>],
               [kind |-> "Literal", literal |-> <<"!">>, alternatives |-> <<>>]>>},
        stripped \in {None, Some([answer |-> "err", prefix |-> <<>>, content |-> <<>>]),
                      Some([answer |-> "None", prefix |-> <<>>, content |-> <<>>]),
                      Some([answer |-> "Some", prefix |-> <<"~">>,
                            content |-> <<"p", "i", "n", "g">>])},
        mention \in BOOLEAN}

\* What users write to such a bot.
StripContents ==
    {<<"!", "p", "i", "n", "g">>, <<"!", "!", "p", "i", "n", "g">>,
     <<"?", "p", "i", "n", "g">>, <<"<", "@", "7", ">", "p", "i", "n", "g">>,
     <<"<", "@", "!", "7", ">", " ", "p", "i", "n", "g">>, <<"h", "i">>,
     <<"<", "@", "!", "!", "7", ">", "p", "i", "n", "g">>,
     <<"<", "@", "8", ">", "p", "i", "n", "g">>}

StripInit ==
    /\ prefix_options \in StripOptionSets
    /\ tasks = [t \in TaskIds |-> IdleTask]
    /\ strip_content \in StripContents
    /\ strip_out = None

\* dispatch_message for a new message of a user: strip_prefix, and what
\* parse_invocation and the dispatch make of its answer.
StripRun ==
    /\ strip_out = None
    /\ LET msg == UserMessage(1, strip_content, "user", "Regular", FALSE) IN
       \E stripped \in {StripPrefix(prefix_options, strip_content)} :
       \E parsed \in {ParseInvocation(prefix_options, Commands, msg)} :
           strip_out' = Some([stripped |-> stripped, parsed |-> parsed,
                              task |-> DispatchParsed(prefix_options, DefaultFrameworkOptions,
                                                      DmContext, Commands, IdleTask, msg,
                                                      "Message", parsed)])
    /\ UNCHANGED strip_content
    /\ UNCHANGED notStripVars

StripNext == StripRun

(***************************************************************************)
(* find_command called on the registered commands with a drawn text, case  *)
(* mode and parent_commands vector.                                        *)
(***************************************************************************)

\* The texts looked up: what is left of a message after its prefix.
FindMessages ==
    {<<"b", "a", "n">>,
     <<"b", "a", "n", "t", "e", "m", "p", " ", "5", " ", "@", "u", "s", "e", "r">>,
     <<"B", "A", "N", "t", "e", "m", "p", " ", "5", " ", "@", "u", "s", "e", "r">>,
     <<"b", "a", "n", "t">>,
     <<"c", "f", "g", " ", "s", "h", "o", "w">>,
     <<"c", "o", "n", "f", "i", "g", " ", "s", "h", "o", "w">>,
     <<"c", "o", "n", "f", "i", "g">>,
     <<"c", "o", "n", "f", "i", "g", " ", " ", "s", "h", "o", "w", " ", "x">>,
     <<"c", "o", "n", "f", "i", "g", " ", "o", "t", "h", "e", "r">>,
     <<"C", "o", "n", "f", "i", "g", " ", "S", "h", "o", "w">>,
     <<"m", "e", "n", "u", " ", "a">>,
     <<"n", "o", "p", "e">>,
     <<"p", "i", "n", "g">>,
     <<"p", "i", "n", "g", " ", "x">>,
     <<>>}

\* What parent_commands holds at the call: nothing, as in parse_invocation, or
\* a path put there by the caller.
FindParents == {<<>>, <<<<5>>>>}

FindInit ==
    /\ find_args \in [remaining_message : FindMessages, case_insensitive : BOOLEAN,
                      parent_commands : FindParents]
    /\ find_out = None

\* One call of find_command.
FindRun ==
    /\ find_out = None
    /\ \E found \in {FindCommand(Commands, <<>>, find_args.remaining_message,
                                  find_args.case_insensitive, find_args.parent_commands)} :
           find_out' = Some(found)
    /\ UNCHANGED find_args
    /\ UNCHANGED notFindVars

FindNext == FindRun

(***************************************************************************)
(* QUALIFIED NAMES (src/framework/mod.rs, set_qualified_names). A command  *)
(* is here its name, its qualified_name and its subcommands.               *)
(***************************************************************************)

\* set_qualified_names runs at most MaxCalls times on a tree.
MaxCalls == 2

\* A variant that appends to the qualified name the command has.
RECURSIVE SetSubcommandQualifiedNames_Appends(_, _)
SetSubcommandQualifiedNames_Appends(parents, commands) ==
    [i \in 1..Len(commands) |->
        LET qualified_name == parents \o <<" ">> \o commands[i].qualified_name IN
        [commands[i] EXCEPT
            !.qualified_name = qualified_name,
            !.subcommands = SetSubcommandQualifiedNames_Appends(qualified_name, @)]]

\* set_subcommand_qualified_names: format!("{} {}", parents, cmd.name) for
\* each command, then its subcommands under the name just set.
RECURSIVE SetSubcommandQualifiedNames(_, _)
SetSubcommandQualifiedNames(parents, commands) ==
    [i \in 1..Len(commands) |->
        LET qualified_name == parents \o <<" ">> \o commands[i].name IN
        [commands[i] EXCEPT
            !.qualified_name = qualified_name,
            !.subcommands = SetSubcommandQualifiedNames(qualified_name, @)]]

\* set_qualified_names: the subcommands of each top-level command under its
\* name; the top-level command's own qualified_name is not written.
SetQualifiedNames(commands) ==
    [i \in 1..Len(commands) |->
        [commands[i] EXCEPT
            !.subcommands = SetSubcommandQualifiedNames(commands[i].name, @)]]

\* A command as it is constructed: qualified_name is initially the name.
NewCommand(name, subcommands) ==
    [name |-> name, qualified_name |-> name, subcommands |-> subcommands]

TreeNames == {<<"a">>, <<"b">>, <<"c", "d">>}

\* Commands without subcommands, with at most one, and the top-level
\* commands: at most two subcommands, one of which may have its own.
TreeLeaves == {NewCommand(n, <<>>) : n \in TreeNames}

TreeInner == TreeLeaves \cup {NewCommand(n, <<l>>) : n \in TreeNames, l \in TreeLeaves}

TreeTop ==
    {NewCommand(n, subs) :
        n \in TreeNames,
        subs \in {<<>>} \cup {<<x>> : x \in TreeInner}
                 \cup {<<x, y>> : x \in TreeInner \ TreeLeaves, y \in TreeLeaves}}

\* The command lists a framework is built with.
CommandTrees == {<<x>> : x \in TreeTop} \cup {<<x, y>> : x \in TreeTop, y \in TreeLeaves}

TreeInit ==
    /\ tree_commands \in CommandTrees
    /\ tree_calls = 0

\* Framework::init's call of set_qualified_names, or a later call of it.
SetNames ==
    /\ tree_calls < MaxCalls
    /\ tree_commands' = SetQualifiedNames(tree_commands)
    /\ tree_calls' = tree_calls + 1
    /\ UNCHANGED notTreeVars

TreeNext == SetNames

(***************************************************************************)
(* THE PURGE TASK (src/framework/mod.rs). Framework::init spawns the task  *)
(* when an edit tracker is configured; the task purges, sleeps 60 seconds  *)
(* and starts over; dropping the Framework aborts it. A spawned task runs  *)
(* on a worker of its own from one suspension point to the next; abort     *)
(* cancels a suspended task at once and a running one at its next          *)
(* suspension point, and returns without waiting. A purge takes no time.   *)
(***************************************************************************)

\* std::time::Duration::from_secs(60), the sleep between two purges.
PurgeSleepSecs == 60

\* Time advances second by second up to MaxClock seconds.
MaxClock == 130

\* At most MaxInflight invocations run at a time.
MaxInflight == 2

\* The spawned task: about to be polled for the first time.
SpawnedTask == [pc |-> "spawned", wake_at |-> 0, aborted |-> FALSE]

FwInit ==
    /\ fw_edit_tracker \in BOOLEAN
    /\ fw_state = "built"
    /\ fw_purge_task = None
    /\ fw_clock = 0
    /\ fw_purges = <<>>
    /\ fw_inflight = 0

\* A Framework::init that spawns the task whatever the configuration.
SpawnOnInit_Always(edit_tracker) == Some(SpawnedTask)

\* Framework::init: edit_tracker_purge_task after it.
SpawnOnInit(edit_tracker) == IF edit_tracker THEN Some(SpawnedTask) ELSE None

\* Framework::init.
FrameworkInit ==
    /\ fw_state = "built"
    /\ fw_state' = "initialized"
    /\ fw_purge_task' = SpawnOnInit(fw_edit_tracker)
    /\ UNCHANGED <<fw_edit_tracker, fw_clock, fw_purges, fw_inflight>>
    /\ UNCHANGED notFwVars

\* The task can run: it was just spawned, or its sleep is over.
Due(task) ==
    \/ task.pc = "spawned"
    \/ task.pc = "sleeping" /\ task.wake_at <= fw_clock

\* A worker takes the task up: at its start or when its sleep is over.
PollBegin ==
    /\ fw_purge_task /= None
    /\ Due(Unwrap(fw_purge_task))
    /\ fw_purge_task' = Some([Unwrap(fw_purge_task) EXCEPT !.pc = "running"])
    /\ UNCHANGED <<fw_edit_tracker, fw_state, fw_clock, fw_purges, fw_inflight>>
    /\ UNCHANGED notFwVars

\* The loop body up to the sleep's await: edit_tracker.write().unwrap().purge()
\* and the start of the sleep, where an aborted task ends.
PurgeAndSleep ==
    /\ fw_purge_task /= None
    /\ Unwrap(fw_purge_task).pc = "running"
    /\ fw_purges' = Append(fw_purges, [at |-> fw_clock, dropped |-> fw_state = "dropped"])
    /\ fw_purge_task' =
           Some(IF Unwrap(fw_purge_task).aborted
                THEN [Unwrap(fw_purge_task) EXCEPT !.pc = "cancelled"]
                ELSE [Unwrap(fw_purge_task) EXCEPT
                         !.pc = "sleeping", !.wake_at = fw_clock + PurgeSleepSecs])
    /\ UNCHANGED <<fw_edit_tracker, fw_state, fw_clock, fw_inflight>>
    /\ UNCHANGED notFwVars

\* JoinHandle::abort on a task: a task that is running is marked and ends at
\* its next suspension point, any other is cancelled where it is.
Abort(task) ==
    IF task.pc = "running"
    THEN [task EXCEPT !.aborted = TRUE]
    ELSE [task EXCEPT !.pc = "cancelled", !.aborted = TRUE]

\* Drop for Framework: the task, if there is one, is aborted.
DropFramework ==
    /\ fw_state /= "dropped"
    /\ fw_state' = "dropped"
    /\ fw_purge_task' = IF fw_purge_task = None THEN None
                        ELSE Some(Abort(Unwrap(fw_purge_task)))
    /\ UNCHANGED <<fw_edit_tracker, fw_clock, fw_purges, fw_inflight>>
    /\ UNCHANGED notFwVars

\* Time passes, unless the task is due or running.
ClockTick ==
    /\ fw_clock < MaxClock
    /\ fw_purge_task /= None =>
           /\ ~Due(Unwrap(fw_purge_task))
           /\ Unwrap(fw_purge_task).pc /= "running"
    /\ fw_clock' = fw_clock + 1
    /\ UNCHANGED <<fw_edit_tracker, fw_state, fw_purge_task, fw_purges, fw_inflight>>
    /\ UNCHANGED notFwVars

\* Framework::dispatch is called for an event.
InvocationBegin ==
    /\ fw_state = "initialized"
    /\ fw_inflight < MaxInflight
    /\ fw_inflight' = fw_inflight + 1
    /\ UNCHANGED <<fw_edit_tracker, fw_state, fw_purge_task, fw_clock, fw_purges>>
    /\ UNCHANGED notFwVars

\* An invocation completes.
InvocationEnd ==
    /\ fw_inflight > 0
    /\ fw_inflight' = fw_inflight - 1
    /\ UNCHANGED <<fw_edit_tracker, fw_state, fw_purge_task, fw_clock, fw_purges>>
    /\ UNCHANGED notFwVars

FwNext ==
    \/ FrameworkInit
    \/ PollBegin
    \/ PurgeAndSleep
    \/ DropFramework
    \/ ClockTick
    \/ InvocationBegin
    \/ InvocationEnd

(***************************************************************************)
(* THE TRACKER'S LOCK. The edit tracker sits in a std::sync::RwLock; every *)
(* user takes the write guard. A guard that is a temporary of a statement  *)
(* is dropped at the end of that statement; a guard bound by an if-let is  *)
(* dropped at the end of the if-let. Each user of the tracker is a script  *)
(* of steps: taking the guard, a tracker method under the guard, dropping  *)
(* the guard, and awaiting a future (a suspension point).                  *)
(***************************************************************************)

\* The tasks that use the tracker concurrently.
MaxLockTasks == 3
LockTaskIds == 1..MaxLockTasks

Write == [op |-> "write", what |-> "edit_tracker"]
Under(method) == [op |-> "call", what |-> method]
Drop_Guard == [op |-> "drop", what |-> "edit_tracker"]
Await(future) == [op |-> "await", what |-> future]

\* dispatch_event, MessageUpdate arm: the guard is a temporary of the `let
\* result` statement; dispatch_message and the error handler are awaited after.
MessageUpdateScript ==
    <<Write, Under("process_message_update"), Drop_Guard,
      Await("dispatch_message"), Await("error.handle")>>

\* dispatch_event, MessageDelete arm.
MessageDeleteScript ==
    <<Write, Under("process_message_delete"), Drop_Guard, Await("bot_response.delete")>>

\* run_invocation: pre_command, track_command under the guard, the action.
RunInvocationScript ==
    <<Await("pre_command"), Write, Under("track_command"), Drop_Guard,
      Await("action"), Await("post_command")>>

\* send_prefix_reply with reuse_response and a cached response: the lookup's
\* guard is a temporary of the `let existing_response` statement; the edit is
\* awaited; set_bot_response runs under a second guard.
SendPrefixReplyEditScript ==
    <<Write, Under("find_bot_response"), Drop_Guard, Await("response.edit"),
      Write, Under("set_bot_response"), Drop_Guard>>

\* send_prefix_reply with reuse_response and no cached response.
SendPrefixReplyLookupSendScript ==
    <<Write, Under("find_bot_response"), Drop_Guard, Await("send_message"),
      Write, Under("set_bot_response"), Drop_Guard>>

\* send_prefix_reply without reuse_response.
SendPrefixReplySendScript ==
    <<Await("send_message"), Write, Under("set_bot_response"), Drop_Guard>>

\* The body of the purge task's loop.
PurgeTaskScript ==
    <<Write, Under("purge"), Drop_Guard, Await("sleep")>>

LockTaskKinds == {"MessageUpdate", "MessageDelete", "run_invocation",
                  "send_prefix_reply/edit", "send_prefix_reply/lookup+send",
                  "send_prefix_reply/send", "purge_task"}

\* A variant of the edit branch that binds the lookup's guard past the edit.
Script_GuardAcrossAwait(kind) ==
    IF kind = "send_prefix_reply/edit"
    THEN <<Write, Under("find_bot_response"), Await("response.edit"),
           Under("set_bot_response"), Drop_Guard>>
    ELSE PurgeTaskScript

Script(kind) ==
    CASE kind = "MessageUpdate" -> MessageUpdateScript
      [] kind = "MessageDelete" -> MessageDeleteScript
      [] kind = "run_invocation" -> RunInvocationScript
      [] kind = "send_prefix_reply/edit" -> SendPrefixReplyEditScript
      [] kind = "send_prefix_reply/lookup+send" -> SendPrefixReplyLookupSendScript
      [] kind = "send_prefix_reply/send" -> SendPrefixReplySendScript
      [] kind = "purge_task" -> PurgeTaskScript

\* The purge task loops; every other task ends with its script.
Loops(kind) == kind = "purge_task"

StepOf(task) == Script(task.kind)[task.pc]
AtStep(task, op) == task.pc <= Len(Script(task.kind)) /\ StepOf(task).op = op
Advance(task) ==
    [task EXCEPT !.pc = IF Loops(task.kind) /\ task.pc = Len(Script(task.kind))
                        THEN 1 ELSE task.pc + 1,
                 !.suspended = FALSE]

\* At most one purge task exists: the framework spawns it once.
LockInit ==
    /\ lock_holder = None
    /\ lock_tasks \in [LockTaskIds -> [kind : LockTaskKinds, pc : {1}, suspended : {FALSE}]]
    /\ Cardinality({t \in LockTaskIds : lock_tasks[t].kind = "purge_task"}) <= 1

\* RwLock::write: returns once no guard is held.
Acquire(t) ==
    /\ AtStep(lock_tasks[t], "write")
    /\ lock_holder = None
    /\ lock_holder' = Some(t)
    /\ lock_tasks' = [lock_tasks EXCEPT ![t] = Advance(@)]
    /\ UNCHANGED notLockVars

\* A tracker method, called through the guard.
LockedCall(t) ==
    /\ AtStep(lock_tasks[t], "call")
    /\ lock_tasks' = [lock_tasks EXCEPT ![t] = Advance(@)]
    /\ UNCHANGED <<lock_holder, notLockVars>>

\* The guard goes out of scope.
Release(t) ==
    /\ AtStep(lock_tasks[t], "drop")
    /\ lock_holder' = IF lock_holder = Some(t) THEN None ELSE lock_holder
    /\ lock_tasks' = [lock_tasks EXCEPT ![t] = Advance(@)]
    /\ UNCHANGED notLockVars

\* The task reaches an await and yields.
Suspend(t) ==
    /\ AtStep(lock_tasks[t], "await")
    /\ ~lock_tasks[t].suspended
    /\ lock_tasks' = [lock_tasks EXCEPT ![t].suspended = TRUE]
    /\ UNCHANGED <<lock_holder, notLockVars>>

\* The awaited future completes.
Resume(t) ==
    /\ AtStep(lock_tasks[t], "await")
    /\ lock_tasks[t].suspended
    /\ lock_tasks' = [lock_tasks EXCEPT ![t] = Advance(@)]
    /\ UNCHANGED <<lock_holder, notLockVars>>

LockNext ==
    \/ \E t \in LockTaskIds : Acquire(t)
    \/ \E t \in LockTaskIds : LockedCall(t)
    \/ \E t \in LockTaskIds : Release(t)
    \/ \E t \in LockTaskIds : Suspend(t)
    \/ \E t \in LockTaskIds : Resume(t)

(***************************************************************************)
(* COOLDOWNS. The gate reads the command's cooldown tracker                *)
(* (src/dispatch/common.rs); the action generated for a slash command      *)
(* parses the arguments, starts the cooldown and calls the command body    *)
(* (macros/src/command/slash.rs, generate_slash_action). The tracker keeps *)
(* the instant of the last invocation per user and answers with the time   *)
(* that remains of the configured duration.                                *)
(***************************************************************************)

\* At most MaxInvocations invocations of the command are made.
MaxInvocations == 2
InvocationIds == 1..MaxInvocations

\* The users who invoke, and the instants of the clock.
MaxUser == 2
Users == 1..MaxUser
MaxInstant == 3
Instants == 0..MaxInstant

\* CooldownConfig::user, in clock units.
CooldownDuration == 2

\* CooldownTracker::remaining_cooldown: the part of the duration that has not
\* elapsed since the user's last invocation, None when nothing remains.
RemainingCooldown(tracker, user, at) ==
    IF tracker[user] = None THEN None
    ELSE IF at - Unwrap(tracker[user]) >= CooldownDuration THEN None
    ELSE Some(CooldownDuration - (at - Unwrap(tracker[user])))

\* CooldownTracker::start_cooldown
StartCooldown(tracker, user, at) == [tracker EXCEPT ![user] = Some(at)]

\* A variant of the gate's cooldown step that starts the cooldown it reads.
GateCooldownStep_Starts(tracker, user, at) ==
    [remaining_cooldown |-> RemainingCooldown(tracker, user, at),
     cooldowns |-> StartCooldown(tracker, user, at)]

\* The gate's cooldown step: remaining_cooldown under the tracker's lock. The
\* answer, and the tracker as the step leaves it.
GateCooldownStep(tracker, user, at) ==
    [remaining_cooldown |-> RemainingCooldown(tracker, user, at),
     cooldowns |-> tracker]

\* The gate for one invocation of the command by the user: the result, the
\* steps evaluated, and the tracker afterwards.
GateOf(options, ctx, cmd, tracker, user, at) ==
    LET step == GateCooldownStep(tracker, user, at)
        out == CheckPermissionsAndCooldown(
                   options, ctx, <<[cmd EXCEPT !.cooldowns = step.remaining_cooldown]>>)
        reached == \E k \in 1..Len(out.checked[1].steps) :
                       out.checked[1].steps[k] = <<"cooldown", 0>>
    IN  [result |-> out.result, steps |-> out.checked[1].steps,
         cooldowns |-> IF reached THEN step.cooldowns ELSE tracker]

\* is_framework_cooldown: the command's override, else the global switch.
IsFrameworkCooldown(options, cmd) ==
    ~(IF cmd.manual_cooldowns /= None
      THEN Unwrap(cmd.manual_cooldowns)
      ELSE options.manual_cooldowns)

\* A variant of the generated action that starts the cooldown before parsing.
SlashAction_StartFirst == <<"start_cooldown", "parse_slash_args", "inner">>

\* The generated slash action, in the order of its statements.
SlashAction == <<"parse_slash_args", "start_cooldown", "inner">>

IdleInvocation ==
    [pc |-> "idle", user |-> 1, gate |-> None, at |-> 0, step |-> 1, args |-> "none",
     started |-> FALSE]

CooldownInit ==
    /\ gate_options \in {[DefaultFrameworkOptions EXCEPT !.manual_cooldowns = m] :
                            m \in BOOLEAN}
    /\ gate_ctx = [DmContext EXCEPT !.kind = "Application"]
    /\ gate_chain = <<>>
    /\ gate_out = None
    /\ cooldown_command \in
           {[DefaultCommand EXCEPT !.name = <<"c", "d">>, !.manual_cooldowns = o] :
               o \in {None, Some(TRUE), Some(FALSE)}}
    /\ cooldown_tracker = [u \in Users |-> None]
    /\ instant = 0
    /\ invocations = [i \in InvocationIds |-> IdleInvocation]

\* Time passes.
Elapse ==
    /\ instant < MaxInstant
    /\ instant' = instant + 1
    /\ UNCHANGED <<cooldown_command, cooldown_tracker, invocations>>
    /\ UNCHANGED notCooldownVars

\* An invocation by a user arrives and is gated; a denial ends it.
Gate(i) ==
    /\ invocations[i].pc = "idle"
    /\ \E user \in Users :
       \E out \in {GateOf(gate_options, gate_ctx, cooldown_command,
                          cooldown_tracker, user, instant)} :
           /\ cooldown_tracker' = out.cooldowns
           /\ invocations' = [invocations EXCEPT ![i] =
                  [@ EXCEPT !.pc = IF out.result.kind = "Ok" THEN "action" ELSE "denied",
                            !.user = user, !.at = instant,
                            !.gate = Some([result |-> out.result, steps |-> out.steps])]]
    /\ UNCHANGED <<cooldown_command, instant>>
    /\ UNCHANGED notCooldownVars

AtAction(i, statement) ==
    invocations[i].pc = "action" /\ SlashAction[invocations[i].step] = statement

\* parse_slash_args: an error returns from the action.
ParseSlashArgs(i) ==
    /\ AtAction(i, "parse_slash_args")
    /\ \E ok \in BOOLEAN :
           invocations' = [invocations EXCEPT ![i] =
               IF ok THEN [@ EXCEPT !.step = @ + 1, !.args = "Ok"]
               ELSE [@ EXCEPT !.pc = "parse_failed", !.args = "Err"]]
    /\ UNCHANGED <<cooldown_command, cooldown_tracker, instant>>
    /\ UNCHANGED notCooldownVars

\* The action starts the cooldown when automatic cooldowns are in effect.
StartFrameworkCooldown(i) ==
    /\ AtAction(i, "start_cooldown")
    /\ LET starts == IsFrameworkCooldown(gate_options, cooldown_command) IN
       /\ cooldown_tracker' = IF starts
                              THEN StartCooldown(cooldown_tracker, invocations[i].user, instant)
                              ELSE cooldown_tracker
       /\ invocations' = [invocations EXCEPT ![i].step = @ + 1, ![i].started = starts]
    /\ UNCHANGED <<cooldown_command, instant>>
    /\ UNCHANGED notCooldownVars

\* The command body. Under manual cooldowns the body may start the cooldown
\* itself.
Inner(i) ==
    /\ AtAction(i, "inner")
    /\ \E manual \in BOOLEAN :
           /\ manual => ~IsFrameworkCooldown(gate_options, cooldown_command)
           /\ cooldown_tracker' = IF manual
                                  THEN StartCooldown(cooldown_tracker, invocations[i].user, instant)
                                  ELSE cooldown_tracker
           /\ invocations' = [invocations EXCEPT
                  ![i] = IF invocations[i].step = Len(SlashAction)
                         THEN [@ EXCEPT !.pc = "done", !.started = @ \/ manual]
                         ELSE [@ EXCEPT !.step = @ + 1, !.started = @ \/ manual]]
    /\ UNCHANGED <<cooldown_command, instant>>
    /\ UNCHANGED notCooldownVars

CooldownNext ==
    \/ Elapse
    \/ \E i \in InvocationIds : Gate(i)
    \/ \E i \in InvocationIds : ParseSlashArgs(i)
    \/ \E i \in InvocationIds : StartFrameworkCooldown(i)
    \/ \E i \in InvocationIds : Inner(i)

(***************************************************************************)
(* The specifications.                                                     *)
(***************************************************************************)

\* One slash invocation and its replies; no tracker call is made.
GateIdle ==
    /\ gate_options = [skip_checks_for_owners |-> FALSE,
                       require_cache_for_guild_check |-> FALSE,
                       manual_cooldowns |-> FALSE, command_check |-> <<>>]
    /\ gate_ctx = [kind |-> "Prefix", author_is_owner |-> FALSE, guild_id |-> None,
                   guild_cached |-> FALSE, channel |-> "Private",
                   author_permissions |-> None, bot_permissions |-> None]
    /\ gate_chain = <<>>
    /\ gate_out = None

ReplyIdle ==
    /\ interaction_type = "Command"
    /\ has_sent_initial_response = FALSE
    /\ reply_mode = "sequential"
    /\ reply_calls = [c \in Calls |-> IdleCall]
    /\ http_log = <<>>

TrackerIdle ==
    /\ cache = <<>>
    /\ max_duration = FromSecs(1)
    /\ now = 0
    /\ last = Call("none", 0, FALSE, FALSE, None)

DispatchIdle ==
    /\ prefix_options = BasePrefixOptions
    /\ tasks = [t \in TaskIds |-> IdleTask]

LockIdle ==
    /\ lock_holder = None
    /\ lock_tasks = [t \in LockTaskIds |-> [kind |-> "purge_task", pc |-> 1, suspended |-> FALSE]]

CooldownIdle ==
    /\ cooldown_command = DefaultCommand
    /\ cooldown_tracker = [u \in Users |-> None]
    /\ instant = 0
    /\ invocations = [i \in InvocationIds |-> IdleInvocation]

StripIdle ==
    /\ strip_content = <<>>
    /\ strip_out = None

FindIdle ==
    /\ find_args = [remaining_message |-> <<>>, case_insensitive |-> FALSE,
                    parent_commands |-> <<>>]
    /\ find_out = None

TreeIdle ==
    /\ tree_commands = <<>>
    /\ tree_calls = 0

FwIdle ==
    /\ fw_edit_tracker = FALSE
    /\ fw_state = "built"
    /\ fw_purge_task = None
    /\ fw_clock = 0
    /\ fw_purges = <<>>
    /\ fw_inflight = 0

InitReply == ReplyInit /\ TrackerIdle /\ GateIdle /\ DispatchIdle /\ LockIdle /\ CooldownIdle /\ StripIdle /\ FindIdle /\ TreeIdle /\ FwIdle

SpecReply == InitReply /\ [][ReplyNext]_vars

\* Calls of the tracker's methods; no reply is sent.
InitTracker == TrackerInit /\ ReplyIdle /\ GateIdle /\ DispatchIdle /\ LockIdle /\ CooldownIdle /\ StripIdle /\ FindIdle /\ TreeIdle /\ FwIdle

SpecTracker == InitTracker /\ [][TrackerNext]_vars

\* purge called on a drawn cache with a drawn timespan.
InitPurge == PurgeInit /\ ReplyIdle /\ GateIdle /\ DispatchIdle /\ LockIdle /\ CooldownIdle /\ StripIdle /\ FindIdle /\ TreeIdle /\ FwIdle

SpecPurge == InitPurge /\ [][PurgeNext]_vars

\* One run of the gate on a drawn context and chain.
InitGate == GateInit /\ ReplyIdle /\ TrackerIdle /\ DispatchIdle /\ LockIdle /\ CooldownIdle /\ StripIdle /\ FindIdle /\ TreeIdle /\ FwIdle

SpecGate == InitGate /\ [][GateNext]_vars

\* Events dispatched concurrently over one edit tracker.
InitDispatch == DispatchInit /\ ReplyIdle /\ LockIdle /\ CooldownIdle /\ StripIdle /\ FindIdle /\ TreeIdle /\ FwIdle

SpecDispatch == InitDispatch /\ [][DispatchNext]_vars

\* Tasks that share the tracker's lock, each running its script.
InitLock == LockInit /\ ReplyIdle /\ TrackerIdle /\ GateIdle /\ DispatchIdle /\ CooldownIdle /\ StripIdle /\ FindIdle /\ TreeIdle /\ FwIdle

SpecLock == InitLock /\ [][LockNext]_vars

\* Slash invocations of one command over its cooldown tracker.
InitCooldown == CooldownInit /\ ReplyIdle /\ TrackerIdle /\ DispatchIdle /\ LockIdle /\ StripIdle /\ FindIdle /\ TreeIdle /\ FwIdle

SpecCooldown == InitCooldown /\ [][CooldownNext]_vars

\* strip_prefix on a drawn configuration and message.
InitStrip ==
    /\ StripInit /\ ReplyIdle /\ TrackerIdle /\ GateIdle /\ LockIdle /\ CooldownIdle /\ FindIdle /\ TreeIdle /\ FwIdle

SpecStrip == InitStrip /\ [][StripNext]_vars

\* find_command on a drawn text.
InitFind ==
    /\ FindInit /\ ReplyIdle /\ TrackerIdle /\ GateIdle /\ DispatchIdle /\ LockIdle /\ TreeIdle /\ FwIdle
    /\ CooldownIdle /\ StripIdle

SpecFind == InitFind /\ [][FindNext]_vars

\* set_qualified_names on a drawn command tree.
InitTree ==
    /\ TreeInit /\ ReplyIdle /\ TrackerIdle /\ GateIdle /\ DispatchIdle /\ LockIdle /\ FwIdle
    /\ CooldownIdle /\ StripIdle /\ FindIdle

SpecTree == InitTree /\ [][TreeNext]_vars

\* A framework from its construction to its drop.
InitFw ==
    /\ FwInit /\ ReplyIdle /\ TrackerIdle /\ GateIdle /\ DispatchIdle /\ LockIdle
    /\ CooldownIdle /\ StripIdle /\ FindIdle /\ TreeIdle

SpecFw == InitFw /\ [][FwNext]_vars

\* The tracker with its purge task running: the task's loop makes the purge
\* call again and again, and time advances.
InitLive == LiveInit /\ ReplyIdle /\ GateIdle /\ DispatchIdle /\ LockIdle /\ CooldownIdle /\ StripIdle /\ FindIdle /\ TreeIdle /\ FwIdle

SpecLive == InitLive /\ [][LiveNext]_vars /\ WF_vars(LivePurge) /\ WF_vars(LiveTick)

(***************************************************************************)
(* Claims about the reply correlator, checked under SpecReply.             *)
(***************************************************************************)

\* The requests of the log that used the initial-response endpoint and were not
\* answered with an error (still in flight, or answered with success).
LiveInitialResponses(op) ==
    {i \in 1..Len(http_log) :
        /\ http_log[i].op = op
        /\ http_log[i].endpoint = "create_response"
        /\ reply_calls[http_log[i].call].result /= "err"}

\* The request at position i of the log was answered with success.
Succeeded(i) == reply_calls[http_log[i].call].result = "ok"

(* C1: under every interleaving of the send_application_reply calls of one
   invocation, the initial-response endpoint is used by at most one send (a
   request answered with an error aside); every other send is a followup. *)
C1_InitialEndpointUsedOnce == Cardinality(LiveInitialResponses("send")) <= 1

(* C2: when the body issues its replies one after another, a successful send
   is the initial response exactly when no successful initial response came
   before it; every later successful send is a followup, and two initial
   responses are never sent. *)
C2_SequentialSends ==
    reply_mode = "sequential" =>
        /\ \A i \in 1..Len(http_log) :
              (http_log[i].op = "send" /\ Succeeded(i)) =>
                  ((http_log[i].endpoint = "create_response") <=>
                   ~\E j \in 1..(i - 1) :
                       http_log[j].endpoint = "create_response" /\ Succeeded(j))
        /\ Cardinality({i \in 1..Len(http_log) :
               http_log[i].endpoint = "create_response" /\ Succeeded(i)}) <= 1

\* Three successful sends in a row: the initial response, then two followups.
C2_Witness ==
    /\ reply_mode = "sequential"
    /\ Len(http_log) = 3
    /\ \A i \in 1..3 : http_log[i].op = "send" /\ Succeeded(i)
    /\ http_log[1].endpoint = "create_response"
    /\ http_log[2].endpoint = "create_followup"
    /\ http_log[3].endpoint = "create_followup"


\* C32: in an autocomplete context a reply is a no-op: a send returns the
\* sentinel handle, neither a send nor a defer issues a request, and the
\* initial-response flag stays unset.
C32_AutocompleteNoOp ==
    interaction_type = "Autocomplete" =>
        /\ http_log = <<>>
        /\ ~has_sent_initial_response
        /\ \A c \in Calls :
               (reply_calls[c].pc = "done" /\ reply_calls[c].op = "send") =>
                   reply_calls[c].result = "sentinel"

\* Call c starts in this step.
Begins(c) == reply_calls[c].pc = "idle" /\ reply_calls'[c].pc /= "idle"

\* Call c's request is answered in this step, with success or with an error.
Answered(c, result) ==
    /\ reply_calls[c].pc = "awaiting"
    /\ reply_calls'[c].pc = "done"
    /\ reply_calls'[c].result = result

\* C37: in a slash invocation a successful defer sets has_sent_initial_response;
\* a send started with the flag set is a followup, a defer started with the
\* flag set sends nothing; the flag changes only from unset to set, when an
\* initial response or a defer succeeded; a failed request leaves it as it is,
\* and a send or defer started with the flag unset uses the initial-response
\* endpoint.
C37_DeferIsInitialResponse ==
    [][interaction_type = "Command" =>
          /\ \A c \in Calls :
                 Answered(c, "ok") /\ reply_calls[c].op = "defer"
                     => has_sent_initial_response'
          /\ \A c \in Calls :
                 Begins(c) /\ has_sent_initial_response =>
                     /\ reply_calls'[c].op = "send" =>
                            /\ reply_calls'[c].endpoint = "create_followup"
                            /\ http_log' = Append(http_log,
                                   [call |-> c, op |-> "send", endpoint |-> "create_followup"])
                     /\ reply_calls'[c].op = "defer" =>
                            /\ http_log' = http_log
                            /\ reply_calls'[c].pc = "done"
          /\ \A c \in Calls :
                 Begins(c) /\ ~has_sent_initial_response =>
                     /\ reply_calls'[c].endpoint = "create_response"
                     /\ http_log' = Append(http_log,
                            [call |-> c, op |-> reply_calls'[c].op,
                             endpoint |-> "create_response"])
          /\ has_sent_initial_response' /= has_sent_initial_response =>
                 /\ has_sent_initial_response'
                 /\ \E c \in Calls :
                        /\ Answered(c, "ok")
                        /\ reply_calls[c].endpoint = "create_response"
          /\ \A c \in Calls :
                 Answered(c, "err") =>
                     has_sent_initial_response' = has_sent_initial_response]_vars

\* A defer failed, the defer after it succeeded, and the send that followed
\* was a followup.
C37_Witness ==
    /\ interaction_type = "Command"
    /\ reply_mode = "sequential"
    /\ reply_calls[1].op = "defer" /\ reply_calls[1].result = "err"
    /\ reply_calls[2].op = "defer" /\ reply_calls[2].result = "ok"
    /\ reply_calls[2].endpoint = "create_response"
    /\ reply_calls[3].op = "send" /\ reply_calls[3].endpoint = "create_followup"
    /\ has_sent_initial_response

(***************************************************************************)
(* Claims about the edit tracker, checked under SpecTracker. A claim about *)
(* a method is stated for every call the method admits in the reachable    *)
(* cache: every message, response and flag an action may pass.             *)
(***************************************************************************)

\* The entries of message id in cache c.
EntriesOf(c, id) == {i \in 1..Len(c) : c[i].user_msg.id = id}

(* C3: whatever tracker methods were called in whatever order, the cache
   holds at most one entry per originating message id. *)
C3_OneEntryPerMessage ==
    \A i, j \in 1..Len(cache) :
        i /= j => cache[i].user_msg.id /= cache[j].user_msg.id

\* Every message has an entry, and track_command was just called for a message
\* that already had one.
C3_Witness ==
    /\ Len(cache) = MaxMsgId
    /\ last.op = "track_command"
    /\ last.found

(* C6: track_command leaves exactly one entry for the message id; called for
   an id that already has an entry (a second call in particular) it changes
   nothing: content snapshot, bot response and deletion flag keep their
   values. *)
C6_TrackCommandIdempotent ==
    \A m \in Messages, td \in BOOLEAN :
        LET once == TrackCommand(cache, m, td) IN
        /\ Cardinality(EntriesOf(once, m.id)) = 1
        /\ HasEntry(cache, m.id) => once = cache
        /\ \A m2 \in Messages, td2 \in BOOLEAN :
               m2.id = m.id => TrackCommand(once, m2, td2) = once

\* track_command was called for a message whose entry already held a bot
\* response, and the response is still there.
C6_Witness ==
    /\ last.op = "track_command"
    /\ last.found
    /\ FindBotResponse(cache, last.id) /= None

(* C7: for a message with an entry (ignore_edits_if_not_yet_responded off, or
   a bot response attached), process_message_update with the cached content
   returns None and changes nothing; with another content it replaces the
   cached message by the new one, changes nothing else and returns
   Some(true); the same edit delivered again returns None. *)
C7_UpdateOfTrackedMessage ==
    \A m \in Messages, ig \in BOOLEAN :
        LET i == Position(cache, m.id)
            r == ProcessMessageUpdate(cache, m, ig)
        IN  (i /= 0 /\ (~ig \/ cache[i].bot_response /= None)) =>
                IF m.content = cache[i].user_msg.content
                THEN r.ret = None /\ r.cache = cache
                ELSE /\ r.ret = Some(TRUE)
                     /\ Len(r.cache) = Len(cache)
                     /\ r.cache[i] = [cache[i] EXCEPT !.user_msg = m]
                     /\ \A j \in 1..Len(cache) : j /= i => r.cache[j] = cache[j]
                     /\ ProcessMessageUpdate(r.cache, m, ig) =
                            [cache |-> r.cache, ret |-> None]

\* An edit of a tracked message re-triggered: the entry now holds an edited
\* message.
C7_Witness ==
    /\ last.op = "process_message_update"
    /\ last.found
    /\ last.ret = Some(TRUE)
    /\ \E i \in EntriesOf(cache, last.id) : cache[i].user_msg.edited_timestamp /= None

(* C9: process_message_delete(id) leaves exactly the entries of the other
   messages, unchanged and in order, so no entry of id remains; it returns
   the entry's bot response if the entry existed, was marked track_deletion
   and has one, and None otherwise; with no entry of id the cache is
   unchanged. *)
C9_DeleteRemovesEntry ==
    \A id \in MsgIds :
        LET r == ProcessMessageDelete(cache, id) IN
        /\ r.cache = SelectSeq(cache, LAMBDA e : e.user_msg.id /= id)
        /\ ~HasEntry(r.cache, id)
        /\ ~HasEntry(cache, id) => r.cache = cache /\ r.ret = None
        /\ \A i \in EntriesOf(cache, id) :
               r.ret = IF cache[i].track_deletion /\ cache[i].bot_response /= None
                       THEN cache[i].bot_response
                       ELSE None

\* A delete returned a bot response and left the other message's entry.
C9_Witness ==
    /\ last.op = "process_message_delete"
    /\ last.found
    /\ last.ret /= None
    /\ Len(cache) = MaxMsgId - 1
    /\ ~HasEntry(cache, last.id)

(* C10: set_bot_response creates an entry with the message, the response and
   the given track_deletion when the message has none; otherwise it
   overwrites the bot response of the entry and nothing else. Afterwards
   find_bot_response returns the response just attached. *)
C10_SetBotResponseUpsert ==
    \A m \in Messages, b \in BotMessages, td \in BOOLEAN :
        LET c2 == SetBotResponse(cache, m, b, td) IN
        /\ FindBotResponse(c2, m.id) = Some(b)
        /\ IF HasEntry(cache, m.id)
           THEN /\ Len(c2) = Len(cache)
                /\ \A j \in 1..Len(cache) :
                       /\ c2[j].user_msg = cache[j].user_msg
                       /\ c2[j].track_deletion = cache[j].track_deletion
                       /\ c2[j].user_msg.id /= m.id =>
                              c2[j].bot_response = cache[j].bot_response
           ELSE c2 = Append(cache, [user_msg |-> m, bot_response |-> Some(b),
                                    track_deletion |-> td])

\* set_bot_response was called for a message that had an entry, beside the
\* entry of another message.
C10_Witness ==
    /\ last.op = "set_bot_response"
    /\ last.found
    /\ Len(cache) = MaxMsgId
    /\ FindBotResponse(cache, last.id) /= None

(***************************************************************************)
(* Claims about purge, checked under SpecPurge.                            *)
(***************************************************************************)

\* The seconds since the entry's last activity.
AgeOf(invocation) == now - LastUpdate(invocation.user_msg)

\* The age is above, or below, the timespan.
OlderThan(age, duration) == age > duration.secs
YoungerThan(age, duration) ==
    age < duration.secs \/ (age = duration.secs /\ duration.subsec)

(* C11: after purge every entry older than max_duration is absent, every
   entry younger than max_duration is present and unchanged, and no entry was
   added: what is left is a part of the cache in its order. *)
C11_PurgeCorrect ==
    LET after == Purge(cache, now, max_duration) IN
    /\ \A i \in 1..Len(cache) :
           /\ OlderThan(AgeOf(cache[i]), max_duration) =>
                  ~\E j \in 1..Len(after) : after[j] = cache[i]
           /\ YoungerThan(AgeOf(cache[i]), max_duration) =>
                  \E j \in 1..Len(after) : after[j] = cache[i]
    /\ \A j \in 1..Len(after) : \E i \in 1..Len(cache) : after[j] = cache[i]
    /\ Len(after) <= Len(cache)

(***************************************************************************)
(* Claims about the gate, checked under SpecGate.                          *)
(***************************************************************************)

\* Node n of the chain fails its own check.
NodeFails(n) == CheckSingle(gate_options, gate_ctx, gate_chain[n]).result.kind /= "Ok"

(* C4: the gate checks the ancestors outermost first and the command last;
   it returns the denial of the first node that fails its own check and
   evaluates no later node; it allows only if every node passes. A free
   subcommand of a guild_only parent is denied with GuildOnly in a DM. *)
C4_CheckInheritance ==
    gate_out /= None =>
        LET out == Unwrap(gate_out)
            failing == {n \in 1..Len(gate_chain) : NodeFails(n)}
        IN  /\ (out.result.kind = "Ok") <=> (failing = {})
            /\ \A i \in 1..Len(out.checked) : out.checked[i].node = i
            /\ failing = {} => Len(out.checked) = Len(gate_chain)
            /\ \A f \in failing :
                   (\A n \in failing : f <= n) =>
                       /\ Len(out.checked) = f
                       /\ out.result =
                              CheckSingle(gate_options, gate_ctx, gate_chain[f]).result
            /\ (/\ Len(gate_chain) > 1
                /\ gate_chain[1].guild_only
                /\ ~gate_chain[1].owners_only
                /\ gate_ctx.guild_id = None
                /\ ~(gate_options.skip_checks_for_owners /\ gate_ctx.author_is_owner))
               => out.result.kind = "GuildOnly"

\* A free subcommand of a guild_only parent, invoked in a DM: denied at the
\* parent, the subcommand not checked.
C4_Witness ==
    /\ gate_out /= None
    /\ Len(gate_chain) = 2
    /\ gate_chain[1].guild_only
    /\ gate_chain[2] = [DefaultCommand EXCEPT !.name = <<"f">>]
    /\ gate_ctx.guild_id = None
    /\ Unwrap(gate_out).result.kind = "GuildOnly"
    /\ Len(Unwrap(gate_out).checked) = 1

\* The answer of callback i of a node: the global callback first, then the
\* node's own in list order.
CallbackAnswer(cmd, i) ==
    IF i <= Len(gate_options.command_check)
    THEN gate_options.command_check[i]
    ELSE cmd.checks[i - Len(gate_options.command_check)]

\* The steps of the single-node gate in their order.
GateOrder(cmd) ==
    <<<<"owners_only", 0>>, <<"guild_only", 0>>, <<"dm_only", 0>>, <<"nsfw_only", 0>>,
      <<"permissions", 0>>>>
    \o [i \in 1..(Len(gate_options.command_check) + Len(cmd.checks)) |-> <<"check", i>>]
    \o (IF gate_options.manual_cooldowns THEN <<>> ELSE <<<<"cooldown", 0>>>>)

\* The denial a step yields for the node, "Ok" when the step lets it pass.
StepVerdict(cmd, step) ==
    LET missing == CalculateMissing(gate_ctx, cmd.required_permissions,
                                    cmd.required_bot_permissions)
    IN
    CASE step[1] = "owners_only" ->
             IF cmd.owners_only /\ ~gate_ctx.author_is_owner THEN "NotAnOwner" ELSE "Ok"
      [] step[1] = "guild_only" ->
             IF cmd.guild_only /\
                (gate_ctx.guild_id = None \/
                 (gate_options.require_cache_for_guild_check /\ ~gate_ctx.guild_cached))
             THEN "GuildOnly" ELSE "Ok"
      [] step[1] = "dm_only" ->
             IF cmd.dm_only /\ gate_ctx.guild_id /= None THEN "DmOnly" ELSE "Ok"
      [] step[1] = "nsfw_only" ->
             IF cmd.nsfw_only /\ ~CheckNsfwChannel(gate_ctx) THEN "NsfwOnly" ELSE "Ok"
      [] step[1] = "permissions" ->
             IF missing = None THEN "PermissionFetchFailed"
             ELSE IF Unwrap(missing).author /= {} THEN "MissingUserPermissions"
             ELSE IF Unwrap(missing).bot /= {} THEN "MissingBotPermissions"
             ELSE "Ok"
      [] step[1] = "check" ->
             IF CallbackAnswer(cmd, step[2]) = "true" THEN "Ok" ELSE "CommandCheckFailed"
      [] step[1] = "cooldown" ->
             IF cmd.cooldowns /= None THEN "CooldownHit" ELSE "Ok"

\* The gate does not return at once for the owner.
NotSkipped == ~SkipsChecks(gate_options, gate_ctx)

\* C14: the single-node gate evaluates owner-only, guild-only, DM-only,
\* NSFW-only, permissions, the global check callback, the node's check callbacks
\* in list order, and the cooldown, in that order. It returns the denial of the
\* first step that fails and evaluates no later step; a callback that answers
\* false denies with no error attached, a callback that fails denies with its
\* error attached.
C14_GateOrder ==
    (gate_out /= None /\ NotSkipped) =>
        \A k \in 1..Len(Unwrap(gate_out).checked) :
            LET cmd == gate_chain[k]
                one == CheckSingle(gate_options, gate_ctx, cmd)
                order == GateOrder(cmd)
                steps == Unwrap(gate_out).checked[k].steps
                n == Len(steps)
            IN  /\ steps = one.steps
                /\ n >= 1 /\ n <= Len(order)
                /\ \A i \in 1..n : steps[i] = order[i]
                /\ \A i \in 1..(n - 1) : StepVerdict(cmd, steps[i]) = "Ok"
                /\ one.result.kind = StepVerdict(cmd, steps[n])
                /\ one.result.kind = "Ok" => n = Len(order)
                /\ one.result.kind = "CommandCheckFailed" =>
                       /\ CallbackAnswer(cmd, steps[n][2]) = "false" =>
                              one.result.error = None
                       /\ CallbackAnswer(cmd, steps[n][2]) = "err" =>
                              one.result.error /= None
                /\ one.result.kind /= "CommandCheckFailed" => one.result.error = None

\* A node whose guild-only, NSFW-only and cooldown steps would all deny and
\* whose callback fails: in a plain guild channel the NSFW step denies, and no
\* callback is run.
C14_Witness ==
    /\ gate_out /= None
    /\ NotSkipped
    /\ gate_chain[1].name = <<"x">>
    /\ gate_ctx.channel = "GuildPlain"
    /\ gate_options.command_check = <<"true">>
    /\ ~gate_options.manual_cooldowns
    /\ Unwrap(gate_out).result.kind = "NsfwOnly"
    /\ Unwrap(gate_out).checked[1].steps =
           <<<<"owners_only", 0>>, <<"guild_only", 0>>, <<"dm_only", 0>>, <<"nsfw_only", 0>>>>

\* The chain with the owner-only restriction lifted from every node.
WithoutOwnersOnly(chain) == [n \in 1..Len(chain) |-> [chain[n] EXCEPT !.owners_only = FALSE]]

\* C15: with skip_checks_for_owners on and an owner as the actor, every node is
\* allowed and no restriction, lookup, callback or cooldown is evaluated on it.
\* With the switch off an owner gets what anyone gets on the same chain without
\* its owner-only restrictions: every other check applies to the owner.
C15_OwnerBypass ==
    (gate_out /= None /\ gate_ctx.author_is_owner) =>
        LET out == Unwrap(gate_out) IN
        IF gate_options.skip_checks_for_owners
        THEN /\ out.result = Ok
             /\ Len(out.checked) = Len(gate_chain)
             /\ \A k \in 1..Len(out.checked) :
                    out.checked[k].steps = <<<<"skip_checks_for_owners", 0>>>>
        ELSE /\ out.result.kind /= "NotAnOwner"
             /\ out.result =
                    CheckPermissionsAndCooldown(
                        gate_options, [gate_ctx EXCEPT !.author_is_owner = FALSE],
                        WithoutOwnersOnly(gate_chain)).result
             /\ \A k \in 1..Len(out.checked) :
                    out.checked[k].steps[1] = <<"owners_only", 0>>

\* An owner invokes, in a DM and with the switch on, a subcommand of an
\* owner-only command that is guild-only, NSFW-only, on cooldown and has a
\* failing callback, under a global callback that answers false: allowed.
C15_Witness ==
    /\ gate_out /= None
    /\ gate_ctx.author_is_owner
    /\ gate_options.skip_checks_for_owners
    /\ gate_options.command_check = <<"false">>
    /\ ~gate_options.manual_cooldowns
    /\ gate_ctx.guild_id = None
    /\ Len(gate_chain) = 2
    /\ gate_chain[1].name = <<"o">>
    /\ gate_chain[2].name = <<"x">>
    /\ Unwrap(gate_out).result = Ok

\* The permissions the step needs of the actor and of the bot: none of a party
\* whose requirement is empty.
Lookup(cmd) ==
    GetAuthorAndBotPermissions(gate_ctx, cmd.required_permissions = {},
                               cmd.required_bot_permissions = {})

\* What a party lacks: the required permissions minus the actual ones.
Deficit(required, actual) == IF actual = None THEN {} ELSE required \ Unwrap(actual)

\* C16: a permission deficit is the required set minus the actual set. A
\* non-empty deficit of the actor denies with the actor's deficit, whatever the
\* bot lacks; otherwise a non-empty deficit of the bot denies with the bot's
\* deficit; a failed lookup denies; the step passes only when a lookup was not
\* needed or succeeded with both deficits empty.
C16_PermissionDeficit ==
    (gate_out /= None /\ NotSkipped) =>
        \A k \in 1..Len(Unwrap(gate_out).checked) :
            LET cmd == gate_chain[k]
                one == CheckSingle(gate_options, gate_ctx, cmd)
                needed == cmd.required_permissions /= {} \/ cmd.required_bot_permissions /= {}
                info == Lookup(cmd)
                actor == Deficit(cmd.required_permissions, Unwrap(info).author_permissions)
                bot == Deficit(cmd.required_bot_permissions, Unwrap(info).bot_permissions)
                denials == {"PermissionFetchFailed", "MissingUserPermissions",
                            "MissingBotPermissions"}
            IN  Len(one.steps) >= 5 =>
                    IF ~needed THEN one.result.kind \notin denials
                    ELSE IF info = None THEN one.result.kind = "PermissionFetchFailed"
                    ELSE IF actor /= {}
                    THEN /\ one.result.kind = "MissingUserPermissions"
                         /\ one.result.missing_permissions = Some(actor)
                    ELSE IF bot /= {}
                    THEN /\ one.result.kind = "MissingBotPermissions"
                         /\ one.result.missing_permissions = Some(bot)
                    ELSE one.result.kind \notin denials

\* The actor lacks MANAGE_MESSAGES and the bot lacks SEND_MESSAGES in a guild
\* channel: the denial names the actor's deficit.
C16_Witness ==
    /\ gate_out /= None
    /\ NotSkipped
    /\ gate_chain[1].name = <<"p">>
    /\ gate_ctx.kind = "Prefix"
    /\ gate_ctx.channel = "GuildPlain"
    /\ gate_ctx.guild_cached
    /\ gate_ctx.author_permissions = Some({"SEND_MESSAGES"})
    /\ gate_ctx.bot_permissions = Some({"SEND_MESSAGES_IN_THREADS"})
    /\ Unwrap(gate_out).result.kind = "MissingUserPermissions"
    /\ Unwrap(gate_out).result.missing_permissions = Some({"MANAGE_MESSAGES"})

\* The channels marked age-restricted: a guild channel that is, and a thread
\* whose parent channel is.
AgeRestricted == {"GuildNsfw", "ThreadNsfwParent"}

\* The gate came to the NSFW step of node i of the chain.
NsfwStepReached(i) ==
    /\ gate_out /= None
    /\ i \in 1..Len(Unwrap(gate_out).checked)
    /\ gate_chain[i].nsfw_only
    /\ \E k \in 1..Len(Unwrap(gate_out).checked[i].steps) :
           Unwrap(gate_out).checked[i].steps[k][1] = "nsfw_only"

\* The gate denied at the NSFW step of node i.
NsfwDenied(i) ==
    /\ Unwrap(gate_out).result.kind = "NsfwOnly"
    /\ i = Len(Unwrap(gate_out).checked)
    /\ LET steps == Unwrap(gate_out).checked[i].steps IN steps[Len(steps)][1] = "nsfw_only"

\* C31 as stated: an nsfw_only node denies unless the channel of the
\* invocation, for a thread its parent, is marked age-restricted.
C31_NsfwOnly_AsStated ==
    \A i \in 1..Len(gate_chain) :
        NsfwStepReached(i) => (NsfwDenied(i) <=> gate_ctx.channel \notin AgeRestricted)

\* C31, amended: an nsfw_only node denies unless the invocation is in a DM
\* channel or in a guild channel, for a thread its parent, that is marked
\* age-restricted; a channel or a thread's parent that cannot be resolved is
\* a denial with NsfwOnly.
C31_NsfwOnly ==
    \A i \in 1..Len(gate_chain) :
        NsfwStepReached(i) =>
            /\ NsfwDenied(i) <=> gate_ctx.channel \notin (AgeRestricted \cup {"Private"})
            /\ gate_ctx.channel \in {"Unresolved", "ThreadNoParent"} => NsfwDenied(i)
            /\ ~NsfwDenied(i) => Unwrap(gate_out).result.kind /= "NsfwOnly"

\* An nsfw_only command was denied in a thread whose parent channel could not
\* be resolved.
C31_Witness ==
    /\ NsfwStepReached(1)
    /\ gate_ctx.channel = "ThreadNoParent"
    /\ NsfwDenied(1)

(***************************************************************************)
(* Claims about the prefix dispatcher, checked under SpecDispatch.         *)
(***************************************************************************)

\* The prefixes a configuration names literally.
ConfiguredPrefixes(options) ==
    (IF options.prefix = None THEN {} ELSE {Unwrap(options.prefix)})
    \cup {options.additional_prefixes[i].literal :
            i \in {j \in 1..Len(options.additional_prefixes) :
                      options.additional_prefixes[j].kind = "Literal"}}

\* A command with a prefix action that nothing in the gate can reject and
\* that does not stand for its subcommands only.
Unrestricted(command) ==
    /\ command.prefix_action /= None
    /\ ~command.subcommand_required
    /\ ~command.owners_only /\ ~command.guild_only /\ ~command.dm_only
    /\ ~command.nsfw_only
    /\ command.required_permissions = {} /\ command.required_bot_permissions = {}
    /\ command.checks = <<>> /\ command.cooldowns = None

\* How often step occurs in a task's trace.
Occurrences(trace, step) == Cardinality({i \in 1..Len(trace) : trace[i] = step})

\* Task t dispatches the creation of a message, from an author and of a kind
\* the filters let pass, that is a configured prefix followed by the name of
\* the unrestricted top-level command i.
PrefixedName(t, i) ==
    /\ tasks[t].event = "Message"
    /\ PassesFilters(prefix_options, Unwrap(tasks[t].msg))
    /\ Unrestricted(Commands[i])
    /\ \E prefix \in ConfiguredPrefixes(prefix_options) :
           Unwrap(tasks[t].msg).content = prefix \o Commands[i].name

(* C5: the message-create event of a message that is a configured prefix
   followed by the name of an unrestricted registered command resolves to that
   command with empty argument text and no ancestors, passes the gate, and its
   prefix action is called once: past the gate nothing keeps run_invocation
   from calling it, and from that call on it has been called exactly once,
   however the body, its reply and the other task go. *)
C5_PrefixedNameRunsOnce ==
    \A t \in TaskIds : \A i \in 1..Len(Commands) :
        PrefixedName(t, i) =>
            /\ tasks[t].parsed = "Some"
            /\ tasks[t].invocation.command = <<i>>
            /\ tasks[t].invocation.invoked_command_name = Commands[i].name
            /\ tasks[t].invocation.args = <<>>
            /\ tasks[t].invocation.mod_chars = <<>>
            /\ tasks[t].invocation.parent_commands = <<>>
            /\ tasks[t].trigger = "MessageCreate"
            /\ tasks[t].pc \in {"gated", "action", "replying", "done", "panicked"}
            /\ Occurrences(tasks[t].trace, "action") =
                   (IF tasks[t].pc = "gated" THEN 0 ELSE 1)
            /\ tasks[t].pc = "gated" => ENABLED RunCommand(t)

\* "!ping" was dispatched, ping replied twice and returned, and post_command
\* ran.
C5_Witness ==
    \E t \in TaskIds :
        /\ PrefixedName(t, 1)
        /\ Unwrap(tasks[t].msg).content = <<"!", "p", "i", "n", "g">>
        /\ tasks[t].pc = "done"
        /\ tasks[t].replies = 2
        /\ Occurrences(tasks[t].trace, "action") = 1
        /\ Occurrences(tasks[t].trace, "post_command") = 1

\* a is an initial part of b.
IsPrefixOf(a, b) == Len(a) <= Len(b) /\ SubSeq(b, 1, Len(a)) = a

\* The steps that run a command.
CommandSteps ==
    {"check_permissions_and_cooldown", "pre_command", "track_command", "action",
     "send_message", "edit", "post_command"}

\* Task t dispatches the edit of a message the tracker had no entry of.
UntrackedEdit(t) ==
    /\ tasks[t].event = "MessageUpdate"
    /\ tasks[t].update /= None
    /\ ~tasks[t].had_entry

\* What dispatch_event does with the creation of message msg.
FreshInvocation(msg) ==
    DispatchMessage(prefix_options, gate_options, gate_ctx, Commands,
                    [IdleTask EXCEPT !.event = "Message"], msg, "MessageCreate")

(* C8: for a message without an entry process_message_update leaves the cache
   as it is and returns Some(false), not-yet-tracked, or None when
   ignore_edits_if_not_yet_responded is on. On None nothing is dispatched. On
   Some(false) the message is parsed with the trigger MessageEditFromInvalid:
   with execute_untracked_edits it is dispatched as its creation would be;
   without, no step of a command runs (no gate, hook, tracker registration,
   action or reply), and what is left is parsing's: an UnknownCommand or
   DynamicPrefix error, or the non_command_message callback and its error. *)
C8_UntrackedEdit ==
    /\ \A m \in ArrivingMessages(TRUE) : \A ignore \in BOOLEAN :
           ~HasEntry(cache, m.id) =>
               ProcessMessageUpdate(cache, m, ignore) =
                   [cache |-> cache, ret |-> IF ignore THEN None ELSE Some(FALSE)]
    /\ \A t \in TaskIds :
           UntrackedEdit(t) =>
               LET ignore == prefix_options.ignore_edits_if_not_yet_responded
                   fresh == FreshInvocation(Unwrap(tasks[t].msg))
               IN  /\ tasks[t].update = Some(IF ignore THEN None ELSE Some(FALSE))
                   /\ ignore =>
                          /\ tasks[t].pc = "done"
                          /\ tasks[t].parsed = "none"
                          /\ tasks[t].trace = <<>>
                          /\ tasks[t].errors = <<>>
                   /\ ~ignore => tasks[t].trigger = "MessageEditFromInvalid"
                   /\ ~ignore /\ prefix_options.execute_untracked_edits =>
                          /\ tasks[t].parsed = fresh.parsed
                          /\ tasks[t].invocation = fresh.invocation
                          /\ IsPrefixOf(fresh.trace, tasks[t].trace)
                          /\ IsPrefixOf(fresh.errors, tasks[t].errors)
                          /\ fresh.pc /= "gated" => tasks[t].pc = fresh.pc
                          /\ fresh.pc = "gated" => tasks[t].pc /= "idle"
                   /\ ~ignore /\ ~prefix_options.execute_untracked_edits =>
                          /\ tasks[t].pc \in {"done", "panicked"}
                          /\ \A i \in 1..Len(tasks[t].trace) :
                                 tasks[t].trace[i] \notin CommandSteps
                          /\ \A i \in 1..Len(tasks[t].errors) :
                                 tasks[t].errors[i] \in
                                     {"UnknownCommand", "DynamicPrefix", "NonCommandMessage"}

\* The edit of an untracked message to "!ping" was dispatched while another
\* message is tracked and execute_untracked_edits is off: ping was resolved
\* and not run.
C8_Witness ==
    \E t \in TaskIds :
        /\ UntrackedEdit(t)
        /\ ~prefix_options.ignore_edits_if_not_yet_responded
        /\ ~prefix_options.execute_untracked_edits
        /\ cache /= <<>>
        /\ ~HasEntry(cache, Unwrap(tasks[t].msg).id)
        /\ tasks[t].parsed = "Some"
        /\ tasks[t].invocation.command = <<1>>
        /\ tasks[t].pc = "done"
        /\ tasks[t].trace = <<>>

\* The last step task t has taken.
LastStep(task) == task.trace[Len(task.trace)]

\* C13: send_prefix_reply edits the cached bot response exactly when the command
\* has reuse_response, a tracker is configured and the tracker holds a bot
\* response for the invoking message, and sends a new message otherwise. When
\* the request succeeds and a tracker is configured, the tracker then holds the
\* edited or sent message as the response of the invoking message, whatever
\* reuse_response is; when the request fails the tracker is unchanged.
C13_PrefixReply ==
    [][\A t \in TaskIds :
         LET msg == Unwrap(tasks[t].msg)
             begins == tasks[t].pc = "action" /\ tasks'[t].pc = "replying"
             succeeds == tasks[t].pc = "replying" /\ tasks'[t].pc = "action"
             fails == tasks[t].pc = "replying" /\ tasks'[t].pc = "done"
             held == FindBotResponse(cache, msg.id)
         IN  /\ begins =>
                    IF CommandOf(t).reuse_response /\ prefix_options.edit_tracker
                       /\ held /= None
                    THEN /\ LastStep(tasks'[t]) = "edit"
                         /\ tasks'[t].existing_response = held
                    ELSE /\ LastStep(tasks'[t]) = "send_message"
                         /\ tasks'[t].existing_response = None
             /\ (succeeds /\ prefix_options.edit_tracker) =>
                    FindBotResponse(cache', msg.id) =
                        Some(IF LastStep(tasks[t]) = "edit"
                             THEN Unwrap(tasks[t].existing_response)
                             ELSE NewResponse(t))
             /\ fails => cache' = cache]_vars

\* One task sent a response that the tracker holds; the re-run for an edit of
\* the message chose to edit that response, and its request failed.
C13_Witness ==
    \E t, u \in TaskIds :
        /\ t /= u
        /\ tasks[t].msg /= None /\ tasks[u].msg /= None
        /\ Unwrap(tasks[t].msg).id = Unwrap(tasks[u].msg).id
        /\ tasks[t].replies = 1
        /\ \E i \in 1..Len(tasks[t].trace) : tasks[t].trace[i] = "send_message"
        /\ tasks[u].pc = "done"
        /\ tasks[u].trace /= <<>>
        /\ LastStep(tasks[u]) = "edit"
        /\ tasks[u].errors = <<"Command">>
        /\ FindBotResponse(cache, Unwrap(tasks[t].msg).id) = Some(NewResponse(t))

\* The configuration with every failing prefix callback declining instead.
Declining(options) ==
    [options EXCEPT
        !.dynamic_prefix =
            IF @ /= None /\ Unwrap(@).answer = "err"
            THEN Some([answer |-> "None", prefix |-> <<>>]) ELSE @,
        !.stripped_dynamic_prefix =
            IF @ /= None /\ Unwrap(@).answer = "err"
            THEN Some([answer |-> "None", prefix |-> <<>>, content |-> <<>>]) ELSE @]

\* The failing prefix callbacks strip_prefix calls for the content: the
\* dynamic callback whenever it fails, the stripped-dynamic callback when it
\* fails and neither the static nor an additional prefix matches.
FailingCallbacks(options, content) ==
    (IF options.dynamic_prefix /= None /\ Unwrap(options.dynamic_prefix).answer = "err"
     THEN {"dynamic_prefix"} ELSE {})
    \cup
    (IF /\ options.stripped_dynamic_prefix /= None
        /\ Unwrap(options.stripped_dynamic_prefix).answer = "err"
        /\ ~(options.dynamic_prefix /= None
             /\ Unwrap(options.dynamic_prefix).answer = "Some"
             /\ StrStartsWith(content, Unwrap(options.dynamic_prefix).prefix))
        /\ ~(options.prefix /= None /\ StrStartsWith(content, Unwrap(options.prefix)))
        /\ \A i \in 1..Len(options.additional_prefixes) :
               MatchAdditionalPrefix(options.additional_prefixes[i], content) = None
     THEN {"stripped_dynamic_prefix"} ELSE {})

\* Task t has parsed a message that passed the filters.
Parsed(t) ==
    /\ tasks[t].parsed /= "none"
    /\ PassesFilters(prefix_options, Unwrap(tasks[t].msg))

\* C21: a prefix callback that fails is reported exactly once, as a
\* DynamicPrefix error of the message being dispatched and before any other
\* error of it; prefix resolution goes on with the remaining strategies, so the
\* message resolves as it would had the callback declined; and the next event
\* can be dispatched.
C21_DynamicPrefixError ==
    \A t \in TaskIds :
        Parsed(t) =>
            LET msg == Unwrap(tasks[t].msg)
                failing == FailingCallbacks(prefix_options, msg.content)
                declined == ParseInvocation(Declining(prefix_options), Commands, msg)
            IN  /\ Occurrences(tasks[t].errors, "DynamicPrefix") = Cardinality(failing)
                /\ \A i \in 1..Cardinality(failing) : tasks[t].errors[i] = "DynamicPrefix"
                /\ tasks[t].parsed = declined.kind
                /\ tasks[t].prefix = declined.prefix
                /\ tasks[t].invocation = declined.invocation
                /\ declined.dynamic_errors = 0
                /\ (failing /= {} /\ t < MaxTasks /\ tasks[t + 1].pc = "idle") =>
                       ENABLED OnMessageDelete(t + 1)

\* Under failing callbacks "hi" was reported twice, once per callback, and
\* handed to non_command_message; then "?ping" was dispatched, reported once,
\* resolved through the additional prefix and run.
C21_Witness ==
    /\ tasks[1].pc = "done" /\ tasks[1].msg /= None /\ tasks[2].msg /= None
    /\ Unwrap(tasks[1].msg).content = <<"h", "i">>
    /\ tasks[1].errors = <<"DynamicPrefix", "DynamicPrefix">>
    /\ tasks[1].trace = <<"non_command_message">>
    /\ tasks[2].pc = "done"
    /\ Unwrap(tasks[2].msg).content = <<"?", "p", "i", "n", "g">>
    /\ tasks[2].errors = <<"DynamicPrefix">>
    /\ tasks[2].prefix = <<"?">>
    /\ Occurrences(tasks[2].trace, "post_command") = 1

\* A top-level command answers to the token: by its name or an alias, in the
\* case mode of the configuration; a modifier leaf by a prefix of the token.
TokenAnswers(options, token) ==
    \E i \in 1..Len(Commands) :
        \E n \in {Commands[i].name} \cup
                 {Commands[i].aliases[k] : k \in 1..Len(Commands[i].aliases)} :
            IF Commands[i].has_modifier /\ Commands[i].subcommands = <<>>
            THEN /\ Len(n) <= Len(token)
                 /\ StringEqual(n, SubSeq(token, 1, Len(n)), options.case_insensitive_commands)
            ELSE StringEqual(n, token, options.case_insensitive_commands)

\* C26: a message with a recognized prefix whose first token answers to no
\* top-level command ends in one UnknownCommand error that carries the prefix
\* and the text after it; no command runs and the handler of messages without
\* a command is not called. A message without a recognized prefix raises no
\* UnknownCommand error and is handed to that handler when one is configured.
C26_UnknownCommand ==
    \A t \in TaskIds :
        Parsed(t) =>
            LET content == Unwrap(tasks[t].msg).content
                stripped == StripPrefix(prefix_options, content).result
                text == TrimStart(Unwrap(stripped).content)
            IN  /\ (stripped /= None /\ ~TokenAnswers(prefix_options, SplitN2(text).first)) =>
                       /\ tasks[t].pc = "done"
                       /\ tasks[t].parsed = "Err"
                       /\ Occurrences(tasks[t].errors, "UnknownCommand") = 1
                       /\ tasks[t].errors[Len(tasks[t].errors)] = "UnknownCommand"
                       /\ tasks[t].prefix = Unwrap(stripped).prefix
                       /\ tasks[t].prefix \o Unwrap(stripped).content = content
                       /\ tasks[t].msg_content = text
                       /\ tasks[t].trace = <<>>
                       /\ tasks[t].replies = 0
                /\ stripped = None =>
                       /\ tasks[t].pc = "done"
                       /\ tasks[t].parsed = "None"
                       /\ Occurrences(tasks[t].errors, "UnknownCommand") = 0
                       /\ tasks[t].trace = IF prefix_options.non_command_message
                                           THEN <<"non_command_message">> ELSE <<>>

\* One task ended in UnknownCommand for "!nope" under a
\* configuration with a handler of messages without a command, and the other
\* handed "hi" to that handler.
C26_Witness ==
    /\ prefix_options.non_command_message
    /\ tasks[1].pc = "done" /\ tasks[1].msg /= None
    /\ Unwrap(tasks[1].msg).content = <<"!", "n", "o", "p", "e">>
    /\ tasks[1].errors /= <<>>
    /\ tasks[1].errors[Len(tasks[1].errors)] = "UnknownCommand"
    /\ tasks[1].prefix = <<"!">> /\ tasks[1].msg_content = <<"n", "o", "p", "e">>
    /\ tasks[1].trace = <<>>
    /\ tasks[2].pc = "done" /\ tasks[2].msg /= None
    /\ Unwrap(tasks[2].msg).content = <<"h", "i">>
    /\ tasks[2].trace = <<"non_command_message">>

\* The errors that carry no Context.
ContextFree == {"DynamicPrefix", "UnknownCommand", "NonCommandMessage", "UnknownInteraction"}

\* How many errors besides those of the prefix callbacks the dispatch of task
\* t, once done, has produced: one when no command was found, when the handler
\* of messages without a command failed, and when an invocation that was not
\* disregarded did not reach post_command.
ErrorsDue(t) ==
    CASE tasks[t].parsed = "Err" -> 1
      [] tasks[t].parsed = "None" ->
             IF /\ prefix_options.non_command_message
                /\ prefix_options.non_command_message_fails
             THEN 1 ELSE 0
      [] tasks[t].parsed = "Some" ->
             IF \/ DisregardsInvocation(prefix_options, CommandOf(t), tasks[t].trigger)
                \/ Occurrences(tasks[t].trace, "post_command") = 1
             THEN 0 ELSE 1
      [] OTHER -> 0

\* C27: every error of a dispatch is handled once, by one handler: the
\* on_error of the resolved command when the error carries a Context and that
\* command defines one, else the global on_error. No error is dropped: a
\* dispatch that is done has handled as many errors as it produced, and the
\* body is not run again after an error.
C27_HandledOnce ==
    \A t \in TaskIds :
        /\ Len(tasks[t].handled_by) = Len(tasks[t].errors)
        /\ \A i \in 1..Len(tasks[t].errors) :
               tasks[t].handled_by[i] =
                   IF tasks[t].errors[i] \notin ContextFree /\ CommandOf(t).on_error /= None
                   THEN "command" ELSE "global"
        /\ tasks[t].pc = "done" =>
               Cardinality({i \in 1..Len(tasks[t].errors) :
                               tasks[t].errors[i] /= "DynamicPrefix"}) = ErrorsDue(t)
        /\ Occurrences(tasks[t].trace, "action") <= 1

\* "!once" failed and its error went to the command's on_error; "!cfg show"
\* was denied in a DM and its error, of the invocation of show, went to the
\* global on_error although config defines one.
C27_Witness ==
    /\ tasks[1].pc = "done" /\ tasks[1].msg /= None
    /\ Unwrap(tasks[1].msg).content = <<"!", "o", "n", "c", "e">>
    /\ tasks[1].errors = <<"Command">>
    /\ tasks[1].handled_by = <<"command">>
    /\ tasks[2].pc = "done" /\ tasks[2].msg /= None
    /\ Unwrap(tasks[2].msg).content = <<"!", "c", "f", "g", " ", "s", "h", "o", "w">>
    /\ tasks[2].errors = <<"GuildOnly">>
    /\ tasks[2].handled_by = <<"global">>

\* Task t has parsed a message that is a configured prefix followed by the
\* name of a top-level command without a prefix action.
NamesCommandWithoutPrefixAction(t) ==
    /\ Parsed(t)
    /\ \E prefix \in ConfiguredPrefixes(prefix_options) : \E i \in 1..Len(Commands) :
           /\ Commands[i].prefix_action = None
           /\ Unwrap(tasks[t].msg).content = prefix \o Commands[i].name

\* C28: a command recognized in prefix text that has no prefix action is
\* reported to the error handler, as an error of the invocation; the message is
\* not handed to the handler of messages without a command and not dropped.
C28_NoPrefixAction ==
    \A t \in TaskIds :
        (NamesCommandWithoutPrefixAction(t) /\ tasks[t].pc = "done") =>
            /\ \E k \in 1..Len(tasks[t].errors) :
                   tasks[t].errors[k] \notin {"DynamicPrefix", "NonCommandMessage"}
            /\ Occurrences(tasks[t].trace, "non_command_message") = 0

\* The body of the command task t resolved panics, and the body was called.
BodyPanicked(t) ==
    /\ tasks[t].parsed = "Some"
    /\ Unwrap(CommandOf(t).prefix_action).returns = "panic"
    /\ Occurrences(tasks[t].trace, "action") = 1
    /\ tasks[t].pc /= "action"

\* C29: a panic of the command's body in run_invocation is caught and handled
\* as one CommandPanic error of the invocation; the dispatch ends normally,
\* post_command is not run, and another event can be dispatched afterwards.
C29_PanicCaught ==
    \A t \in TaskIds :
        BodyPanicked(t) =>
            /\ tasks[t].pc = "done"
            /\ Occurrences(tasks[t].errors, "CommandPanic") = 1
            /\ tasks[t].errors[Len(tasks[t].errors)] = "CommandPanic"
            /\ Len(tasks[t].handled_by) = Len(tasks[t].errors)
            /\ Occurrences(tasks[t].trace, "post_command") = 0
            /\ \A u \in TaskIds : MayDispatch(u) => ENABLED OnMessage(u)

\* The body of config panicked in a guild, and the next message, "!ping", was
\* dispatched and ran to post_command.
C29_Witness ==
    /\ BodyPanicked(1)
    /\ tasks[1].errors = <<"CommandPanic">>
    /\ tasks[2].pc = "done" /\ tasks[2].event = "Message"
    /\ tasks[2].trace /= <<>>
    /\ tasks[2].trace[Len(tasks[2].trace)] = "post_command"

\* The phases of run_invocation in the order of the claim.
Phases ==
    <<"check_permissions_and_cooldown", "pre_command", "track_command", "action",
      "post_command">>

\* The phases of a trace, in the order they happened.
RECURSIVE PhasesOf(_)
PhasesOf(trace) ==
    IF trace = <<>> THEN <<>>
    ELSE IF \E k \in 1..Len(Phases) : Phases[k] = trace[1]
    THEN <<trace[1]>> \o PhasesOf(Tail(trace))
    ELSE PhasesOf(Tail(trace))

\* The phases a run goes through: all of them, track_command only with an
\* edit tracker.
PhaseOrder ==
    IF prefix_options.edit_tracker THEN Phases
    ELSE <<"check_permissions_and_cooldown", "pre_command", "action", "post_command">>

\* The gate denies the invocation of task t.
GateDenies(t) ==
    /\ tasks[t].parsed = "Some"
    /\ tasks[t].trace /= <<>>
    /\ CheckPermissionsAndCooldown(gate_options, gate_ctx,
           InvocationChain(Commands, tasks[t].invocation)).result.kind /= "Ok"

\* C30: the phases of run_invocation happen in the order gate, pre_command,
\* registration with the edit tracker, body, post_command. When the gate denies
\* none of the others happens; the body is called at most once per event; and
\* post_command happens only after the body returned Ok.
C30_PhaseOrder ==
    \A t \in TaskIds :
        /\ IsPrefixOf(PhasesOf(tasks[t].trace), PhaseOrder)
        /\ GateDenies(t) => tasks[t].trace = <<"check_permissions_and_cooldown">>
        /\ Occurrences(tasks[t].trace, "action") <= 1
        /\ Occurrences(tasks[t].trace, "post_command") = 1 =>
               /\ Unwrap(CommandOf(t).prefix_action).returns = "Ok"
               /\ tasks[t].replies = Unwrap(CommandOf(t).prefix_action).replies
               /\ Occurrences(tasks[t].errors, "Command") = 0
               /\ Occurrences(tasks[t].errors, "CommandPanic") = 0
               /\ tasks[t].trace[Len(tasks[t].trace)] = "post_command"

\* "!ping" ran through all five phases with its replies before post_command,
\* and "!cfg show" was denied by the gate in a DM and went no further.
C30_Witness ==
    /\ tasks[1].pc = "done"
    /\ tasks[1].trace = <<"check_permissions_and_cooldown", "pre_command", "track_command",
                          "action", "send_message", "edit", "post_command">>
    /\ tasks[2].pc = "done"
    /\ GateDenies(2)
    /\ tasks[2].errors = <<"GuildOnly">>

\* Task t's edit of the tracked response was answered with success.
ReusedEditLanded(t) ==
    /\ tasks[t].pc = "replying"
    /\ tasks[t].existing_response /= None
    /\ tasks'[t].pc = "action"

\* C35: in the reuse branch of send_prefix_reply the tracker is updated after
\* the awaited edit only if the invocation message's entry still exists: when
\* the entry was removed while the edit was in flight, the tracker holds no
\* entry for that message afterwards.
C35_NoEntryAfterRemoval ==
    [][\A t \in TaskIds :
           ReusedEditLanded(t) /\ ~HasEntry(cache, Unwrap(tasks[t].msg).id)
               => ~HasEntry(cache', Unwrap(tasks[t].msg).id)]_vars

\* Task t takes up a MessageUpdate event in this step.
TakesUpdate(t) == tasks[t].pc = "idle" /\ tasks'[t].event = "MessageUpdate"

\* Task t takes up the MessageDelete event of message id in this step.
TakesDelete(t, id) ==
    /\ tasks[t].pc = "idle"
    /\ tasks'[t].event = "MessageDelete"
    /\ tasks'[t].deleted_message_id = Some(id)

\* C36: with an edit tracker, run_invocation registers the invocation message
\* before the command body starts; the entry stays until the message's
\* deletion is processed; and while there is an entry, with or without a bot
\* response, an edit event for the message is never dispatched as
\* MessageEditFromInvalid.
C36_RunningCommandTracked ==
    [][/\ \A t \in TaskIds :
              tasks[t].pc = "gated" /\ tasks'[t].pc = "action" /\ prefix_options.edit_tracker
                  => HasEntry(cache', Unwrap(tasks[t].msg).id)
       /\ \A id \in MsgIds :
              HasEntry(cache, id) /\ ~HasEntry(cache', id)
                  => \E t \in TaskIds : TakesDelete(t, id)
       /\ \A t \in TaskIds :
              TakesUpdate(t) /\ HasEntry(cache, Unwrap(tasks'[t].msg).id)
                  => tasks'[t].trigger /= "MessageEditFromInvalid"]_vars

\* A command's body is running and has not replied yet, untracked edits are
\* executed, and an edit of its invocation message, taken up meanwhile, was
\* dispatched as a tracked edit.
C36_Witness ==
    \E t, u \in TaskIds :
        /\ prefix_options.execute_untracked_edits
        /\ tasks[t].event = "Message"
        /\ tasks[t].pc \in {"action", "replying"}
        /\ tasks[t].replies = 0
        /\ tasks[t].existing_response = None
        /\ tasks[u].event = "MessageUpdate"
        /\ tasks[u].had_entry
        /\ tasks[u].msg /= None
        /\ Unwrap(tasks[u].msg).id = Unwrap(tasks[t].msg).id
        /\ tasks[u].trigger = "MessageEdit"

\* Task t's event was parsed to a command and is an edit the command or the
\* framework does not run on: a tracked edit of a command without
\* invoke_on_edit, or an untracked edit with execute_untracked_edits off.
EditNotRunOn(t) ==
    /\ tasks[t].parsed = "Some"
    /\ \/ tasks[t].trigger = "MessageEdit" /\ ~CommandOf(t).invoke_on_edit
       \/ /\ tasks[t].trigger = "MessageEditFromInvalid"
          /\ ~prefix_options.execute_untracked_edits

\* C39: an invocation triggered by a tracked edit of a command with
\* invoke_on_edit unset, or by an untracked edit while execute_untracked_edits
\* is off, does nothing: the task is done at once with no step of
\* run_invocation behind it (no gate check, and with it no cooldown started,
\* no hook, no registration, no body, no reply), no error but what parsing
\* reported of the dynamic prefix, and every entry's bot response as it was.
C39_DisregardedEdit ==
    [][\A t \in TaskIds :
           tasks[t].pc = "idle" /\ EditNotRunOn(t)' =>
               /\ tasks'[t].pc = "done"
               /\ tasks'[t].trace = <<>>
               /\ tasks'[t].replies = 0
               /\ \A i \in 1..Len(tasks'[t].errors) : tasks'[t].errors[i] = "DynamicPrefix"
               /\ Len(cache') = Len(cache)
               /\ \A i \in 1..Len(cache) :
                      /\ cache'[i].bot_response = cache[i].bot_response
                      /\ cache'[i].user_msg.id = cache[i].user_msg.id
               /\ cooldown_tracker' = cooldown_tracker]_vars

\* A message ran a command, and its tracked edit, naming a command with
\* subcommand_required and without invoke_on_edit, was disregarded without
\* the subcommand-required error.
C39_Witness ==
    \E t, u \in TaskIds :
        /\ EditNotRunOn(t) /\ tasks[t].trigger = "MessageEdit"
        /\ CommandOf(t).subcommand_required
        /\ tasks[t].pc = "done" /\ tasks[t].errors = <<>>
        /\ tasks[u].event = "Message" /\ tasks[u].trace /= <<>>
        /\ Unwrap(tasks[u].msg).id = Unwrap(tasks[t].msg).id

(***************************************************************************)
(* Claims about the tracker's lock, checked under SpecLock.                *)
(***************************************************************************)

\* The task has reached an await and has not resumed.
Suspended(t) == lock_tasks[t].suspended

\* The task has run its script to the end.
Finished(t) == lock_tasks[t].pc > Len(Script(lock_tasks[t].kind))

\* C12: the tracker's lock is never held across a suspension point. A task that
\* is suspended at an await does not hold the guard; whoever holds the guard is
\* at a tracker call or at the drop of the guard; and a task that wants the
\* guard while every other task is suspended or finished can take it.
C12_NoGuardAcrossAwait ==
    /\ \A t \in LockTaskIds : Suspended(t) => lock_holder /= Some(t)
    /\ \A t \in LockTaskIds :
           lock_holder = Some(t) =>
               AtStep(lock_tasks[t], "call") \/ AtStep(lock_tasks[t], "drop")
    /\ \A t \in LockTaskIds :
           (/\ AtStep(lock_tasks[t], "write")
            /\ \A u \in LockTaskIds \ {t} : Suspended(u) \/ Finished(u))
           => ENABLED Acquire(t)

\* One task awaits the edit of its response while the purge task holds the
\* guard and a third task is about to take it.
C12_Witness ==
    \E t, u, v \in LockTaskIds :
        /\ Suspended(t)
        /\ lock_tasks[t].kind = "send_prefix_reply/edit"
        /\ StepOf(lock_tasks[t]).what = "response.edit"
        /\ lock_tasks[u].kind = "purge_task"
        /\ lock_holder = Some(u)
        /\ v /= t /\ v /= u
        /\ AtStep(lock_tasks[v], "write")

(***************************************************************************)
(* Claims about cooldowns, checked under SpecCooldown.                     *)
(***************************************************************************)

\* Invocation i has just been gated in this step.
Gated(i) == invocations[i].pc = "idle" /\ invocations'[i].pc /= "idle"

\* C17: the gate never changes a cooldown tracker, and the gate run again at
\* the same instant for the same invocation, with no start_cooldown in between,
\* gives the same result: the same verdict and the same remaining time.
C17_GateReadsOnly ==
    [][\A i \in InvocationIds :
         Gated(i) =>
             LET again == GateOf(gate_options', gate_ctx', cooldown_command',
                                 cooldown_tracker', invocations'[i].user, instant')
             IN  /\ cooldown_tracker' = cooldown_tracker
                 /\ again.result = Unwrap(invocations'[i].gate).result
                 /\ again.steps = Unwrap(invocations'[i].gate).steps
                 /\ again.cooldowns = cooldown_tracker']_vars

\* A user whose cooldown was started one instant ago is denied with the time
\* that remains, and the tracker still holds the instant of the start.
C17_Witness ==
    \E i, j \in InvocationIds :
        /\ invocations[i].pc = "done"
        /\ invocations[i].started
        /\ invocations[j].pc = "denied"
        /\ invocations[j].user = invocations[i].user
        /\ invocations[j].at = invocations[i].at + 1
        /\ Unwrap(invocations[j].gate).result.kind = "CooldownHit"
        /\ Unwrap(invocations[j].gate).result.remaining_cooldown = Some(CooldownDuration - 1)
        /\ cooldown_tracker[invocations[i].user] = Some(invocations[i].at)

\* The gate evaluated its cooldown step for invocation i.
CooldownChecked(i) ==
    \E k \in 1..Len(Unwrap(invocations[i].gate).steps) :
        Unwrap(invocations[i].gate).steps[k] = <<"cooldown", 0>>

\* C18: the gate's cooldown step applies to a command exactly when automatic
\* cooldowns are in effect for it: the command's manual_cooldowns override
\* decides when set, the global switch otherwise, as in the code that starts
\* cooldowns. A command with override Some(true) is never denied with a
\* cooldown; a command with override Some(false) is cooldown-checked even when
\* the global switch is on.
C18_CooldownRule ==
    \A i \in InvocationIds :
        invocations[i].gate /= None =>
            /\ CooldownChecked(i) <=> IsFrameworkCooldown(gate_options, cooldown_command)
            /\ cooldown_command.manual_cooldowns = Some(TRUE) =>
                   Unwrap(invocations[i].gate).result.kind /= "CooldownHit"
            /\ cooldown_command.manual_cooldowns = Some(FALSE) => CooldownChecked(i)

\* C19: a cooldown is started only for an invocation that passed the gate and
\* whose arguments were parsed; a step that ends an invocation with a denial or
\* a parse failure leaves the tracker unchanged.
C19_StartAfterParse ==
    [][/\ \A u \in Users :
              cooldown_tracker'[u] /= cooldown_tracker[u] =>
                  \E i \in InvocationIds :
                      /\ invocations'[i] /= invocations[i]
                      /\ invocations[i].user = u
                      /\ invocations[i].pc = "action"
                      /\ Unwrap(invocations[i].gate).result = Ok
                      /\ invocations[i].args = "Ok"
       /\ \A i \in InvocationIds :
              (/\ invocations'[i].pc \in {"denied", "parse_failed"}
               /\ invocations[i].pc /= invocations'[i].pc)
              => cooldown_tracker' = cooldown_tracker]_vars

\* One invocation failed to parse and its user has no cooldown; another
\* invocation was parsed and started the cooldown of its user.
C19_Witness ==
    \E i, j \in InvocationIds :
        /\ invocations[i].pc = "parse_failed"
        /\ cooldown_tracker[invocations[i].user] = None
        /\ invocations[j].pc = "done"
        /\ invocations[j].args = "Ok"
        /\ invocations[j].started
        /\ IsFrameworkCooldown(gate_options, cooldown_command)
        /\ cooldown_tracker[invocations[j].user] = Some(invocations[j].at)

(***************************************************************************)
(* Claims about the prefix resolver, checked under SpecStrip.              *)
(***************************************************************************)

\* The strategies in their fixed order.
Strategies ==
    <<"dynamic_prefix", "prefix", "additional_prefixes", "stripped_dynamic_prefix",
      "mention_as_prefix">>

\* The strategy is configured.
Configured(options, strategy) ==
    CASE strategy = "dynamic_prefix" -> options.dynamic_prefix /= None
      [] strategy = "prefix" -> options.prefix /= None
      [] strategy = "additional_prefixes" -> options.additional_prefixes /= <<>>
      [] strategy = "stripped_dynamic_prefix" -> options.stripped_dynamic_prefix /= None
      [] strategy = "mention_as_prefix" -> options.mention_as_prefix

Split(content, n) == Some([prefix |-> SubSeq(content, 1, n), content |-> Drop(content, n)])

\* The first entry of the list that matches the content, 0 when none does.
FirstAdditional(options, content) ==
    LET matching == {i \in 1..Len(options.additional_prefixes) :
                        MatchAdditionalPrefix(options.additional_prefixes[i], content) /= None}
    IN  IF matching = {} THEN 0 ELSE CHOOSE i \in matching : \A j \in matching : i <= j

\* What a configured strategy makes of the content on its own: Some((prefix,
\* rest)) when it matches, None when it does not.
Outcome(options, strategy, content) ==
    CASE strategy = "dynamic_prefix" ->
             LET dyn == Unwrap(options.dynamic_prefix) IN
             IF dyn.answer = "Some" /\ StrStartsWith(content, dyn.prefix)
             THEN Split(content, Len(dyn.prefix)) ELSE None
      [] strategy = "prefix" ->
             IF StrStartsWith(content, Unwrap(options.prefix))
             THEN Split(content, Len(Unwrap(options.prefix))) ELSE None
      [] strategy = "additional_prefixes" ->
             IF FirstAdditional(options, content) = 0 THEN None
             ELSE MatchAdditionalPrefix(
                      options.additional_prefixes[FirstAdditional(options, content)], content)
      [] strategy = "stripped_dynamic_prefix" ->
             LET sdyn == Unwrap(options.stripped_dynamic_prefix) IN
             IF sdyn.answer = "Some"
             THEN Some([prefix |-> sdyn.prefix, content |-> sdyn.content]) ELSE None
      [] strategy = "mention_as_prefix" ->
             IF StripMention(content, options.bot_id) = None THEN None
             ELSE Split(content, Len(content) - Len(Unwrap(StripMention(content, options.bot_id))))

\* The positions in Strategies of the configured strategies that match.
Matching(options, content) ==
    {k \in 1..Len(Strategies) :
        /\ Configured(options, Strategies[k])
        /\ Outcome(options, Strategies[k], content) /= None}

\* The steps of a command: its lookup result, the gate, the action.
RanCommand(out) ==
    \/ out.parsed.invocation /= NotFound
    \/ out.task.pc /= "done"
    \/ \E k \in 1..Len(out.task.trace) : out.task.trace[k] /= "non_command_message"
    \/ \E k \in 1..Len(out.task.errors) : out.task.errors[k] /= "DynamicPrefix"

\* C20: strip_prefix consults the configured strategies in the order dynamic
\* callback, static literal, additional prefixes in list order, stripped-dynamic
\* callback, bot mention, and returns the result of the first that matches; no
\* later strategy is consulted. When none matches it returns None, and no
\* command is looked up or run for the message.
C20_FirstMatchingStrategy ==
    strip_out /= None =>
        LET out == Unwrap(strip_out)
            matching == Matching(prefix_options, strip_content)
            first == CHOOSE k \in matching : \A j \in matching : k <= j
            UpTo(n) == SelectSeq(SubSeq(Strategies, 1, n),
                                 LAMBDA s : Configured(prefix_options, s))
        IN  IF matching = {}
            THEN /\ out.stripped.result = None
                 /\ out.stripped.consulted = UpTo(Len(Strategies))
                 /\ out.parsed.kind = "None"
                 /\ ~RanCommand(out)
            ELSE /\ out.stripped.result =
                        Outcome(prefix_options, Strategies[first], strip_content)
                 /\ out.stripped.consulted = UpTo(first)
                 /\ out.parsed.prefix = Unwrap(out.stripped.result).prefix

\* "!!ping" under a dynamic callback that yields "$", the static prefix "?",
\* an additional regex !!|! before the literal "!", a stripped-dynamic callback
\* that matches and the mention strategy: the regex strips "!!", and neither
\* the stripped-dynamic callback nor the mention is consulted.
C20_Witness ==
    /\ strip_out /= None
    /\ strip_content = <<"!", "!", "p", "i", "n", "g">>
    /\ prefix_options.dynamic_prefix = Some([answer |-> "Some", prefix |-> <<"$">>])
    /\ prefix_options.prefix = Some(<<"?">>)
    /\ Len(prefix_options.additional_prefixes) = 2
    /\ prefix_options.stripped_dynamic_prefix /= None
    /\ Unwrap(prefix_options.stripped_dynamic_prefix).answer = "Some"
    /\ prefix_options.mention_as_prefix
    /\ Unwrap(strip_out).stripped.result =
           Some([prefix |-> <<"!", "!">>, content |-> <<"p", "i", "n", "g">>])
    /\ Unwrap(strip_out).stripped.consulted =
           <<"dynamic_prefix", "prefix", "additional_prefixes">>
    /\ Unwrap(strip_out).task.pc = "gated"

\* The two forms of a mention of the bot.
BotMentions(options) ==
    {<<"<", "@">> \o options.bot_id \o <<">">>,
     <<"<", "@", "!">> \o options.bot_id \o <<">">>}

\* strip_prefix came to the mention strategy.
MentionConsulted(out) ==
    /\ out.stripped.consulted /= <<>>
    /\ out.stripped.consulted[Len(out.stripped.consulted)] = "mention_as_prefix"

\* C22: the mention strategy matches a message if and only if its text begins
\* with <@ID> or <@!ID>, ID the bot's id; the prefix returned is that mention
\* and the remainder the text after the closing >. No other form is accepted.
C22_MentionForms ==
    (strip_out /= None /\ MentionConsulted(Unwrap(strip_out))) =>
        LET out == Unwrap(strip_out)
            mentions == {m \in BotMentions(prefix_options) : StrStartsWith(strip_content, m)}
        IN  /\ (out.stripped.result /= None) <=> (mentions /= {})
            /\ out.stripped.result /= None =>
                   /\ Unwrap(out.stripped.result).prefix \in mentions
                   /\ Unwrap(out.stripped.result).content =
                          Drop(strip_content, Len(Unwrap(out.stripped.result).prefix))

(***************************************************************************)
(* Claims about the command tree lookup, checked under SpecFind.           *)
(***************************************************************************)

\* The first token of the text looked up and the text after the whitespace
\* that ends it.
FindToken == SplitN2(find_args.remaining_message).first

FindRest ==
    LET second == SplitN2(find_args.remaining_message).second IN
    IF second = None THEN <<>> ELSE TrimStart(Unwrap(second))

\* The name and the aliases of a command.
NamesOf(command) == {command.name} \cup {command.aliases[i] : i \in 1..Len(command.aliases)}

\* Equality and the prefix relation of strings in the case mode of the call.
SameName(a, b) ==
    IF find_args.case_insensitive
    THEN Len(a) = Len(b) /\ \A i \in 1..Len(a) : ToAsciiLowercase(a[i]) = ToAsciiLowercase(b[i])
    ELSE a = b

NamePrefix(a, b) == Len(a) <= Len(b) /\ SameName(a, SubSeq(b, 1, Len(a)))

\* A leaf command marked has_modifier.
ModifierLeaf(command) == command.has_modifier /\ command.subcommands = <<>>

\* The names under which a command answers to the token.
AnsweringNames(command) ==
    {n \in NamesOf(command) :
        IF ModifierLeaf(command) THEN NamePrefix(n, FindToken) ELSE SameName(n, FindToken)}

\* C23: a leaf command marked has_modifier whose name or alias is a prefix of
\* the first token, no earlier command answering to the token, is matched: the
\* lookup returns that command, the rest of the token after the name as the
\* modifier, and the text after the token's whitespace as the remaining text.
C23_ModifierMatch ==
    find_out /= None =>
        \A i \in 1..Len(Commands) :
            (/\ ModifierLeaf(Commands[i])
             /\ AnsweringNames(Commands[i]) /= {}
             /\ \A j \in 1..(i - 1) : AnsweringNames(Commands[j]) = {}) =>
                /\ Unwrap(find_out).kind = "Some"
                /\ Unwrap(find_out).command = <<i>>
                /\ \E n \in AnsweringNames(Commands[i]) :
                       Unwrap(find_out).mod_chars = Drop(FindToken, Len(n))
                /\ Unwrap(find_out).args = FindRest

\* The text looked up with its first token replaced by `name`.
Renamed(name) == name \o Drop(find_args.remaining_message, Len(FindToken))

\* C24: an alias selects its command as the name does, and the lookup goes on
\* into the subcommands: the lookup of a text whose first token is an alias of
\* a command returns the command, arguments and ancestor path that the text
\* with the command's name in the alias's place returns. "cfg show" resolves to
\* the subcommand "show" of "config" with the ancestor path ["config"].
C24_AliasAsName ==
    (find_out /= None /\ find_args.parent_commands = <<>>) =>
        LET out == Unwrap(find_out) IN
        /\ \A i \in 1..Len(Commands) :
               (/\ ~ModifierLeaf(Commands[i])
                /\ FindToken \notin {Commands[j].name : j \in 1..Len(Commands)}
                /\ \E k \in 1..Len(Commands[i].aliases) : SameName(Commands[i].aliases[k], FindToken)) =>
                   LET byName == FindCommand(Commands, <<>>, Renamed(Commands[i].name),
                                             find_args.case_insensitive, <<>>)
                   IN  /\ out.kind = "Some" /\ byName.kind = "Some"
                       /\ out.command = byName.command
                       /\ out.args = byName.args
                       /\ out.parent_commands = byName.parent_commands
                       /\ out.command[1] = i
        /\ find_args.remaining_message = <<"c", "f", "g", " ", "s", "h", "o", "w">> =>
               /\ out.kind = "Some"
               /\ CommandAt(Commands, out.command).name = <<"s", "h", "o", "w">>
               /\ Len(out.parent_commands) = 1
               /\ CommandAt(Commands, out.parent_commands[1]).name = <<"c", "o", "n", "f", "i", "g">>
               /\ out.command = out.parent_commands[1] \o <<1>>

\* "cfg show" was looked up from an empty ancestor path and resolved to a
\* subcommand.
C24_Witness ==
    /\ find_out /= None
    /\ find_args.parent_commands = <<>>
    /\ find_args.remaining_message = <<"c", "f", "g", " ", "s", "h", "o", "w">>
    /\ Unwrap(find_out).kind = "Some"
    /\ Len(Unwrap(find_out).command) = 2

\* The chain of nodes from the top-level command of a path down to the parent
\* of the path's node.
AncestorsOf(path) == [k \in 1..(Len(path) - 1) |-> SubSeq(path, 1, k)]

\* The text left after the first n tokens of a text and the whitespace that
\* follows each.
RECURSIVE AfterTokens(_, _)
AfterTokens(text, n) ==
    IF n = 0
    THEN text
    ELSE LET second == SplitN2(text).second IN
         AfterTokens(IF second = None THEN <<>> ELSE TrimStart(Unwrap(second)), n - 1)

\* A subcommand of `command` answers to the first token of `text`.
SubcommandAnswers(command, text) ==
    \E k \in 1..Len(command.subcommands) :
        \E n \in NamesOf(command.subcommands[k]) :
            IF ModifierLeaf(command.subcommands[k])
            THEN NamePrefix(n, SplitN2(text).first)
            ELSE SameName(n, SplitN2(text).first)

\* C25: a find_command started with an empty ancestor path that succeeds
\* leaves in the path exactly the chain from a top-level command to the parent
\* of the matched node, never the matched node; the matched node is one none of
\* whose subcommands answers to the next token, and its arguments are the text
\* that was not matched. A find_command that finds nothing leaves the path as
\* it was.
C25_AncestorPath ==
    find_out /= None =>
        LET out == Unwrap(find_out) IN
        /\ (out.kind = "Some" /\ find_args.parent_commands = <<>>) =>
               /\ out.parent_commands = AncestorsOf(out.command)
               /\ \A k \in 1..Len(out.parent_commands) : out.parent_commands[k] /= out.command
               /\ out.args = AfterTokens(find_args.remaining_message, Len(out.command))
               /\ ~SubcommandAnswers(CommandAt(Commands, out.command), out.args)
        /\ out.kind = "None" => out.parent_commands = find_args.parent_commands

\* "config  show x" was looked up from an empty ancestor path: the subcommand
\* was matched below its parent and "x" left as its arguments.
C25_Witness ==
    /\ find_out /= None
    /\ find_args.parent_commands = <<>>
    /\ find_args.remaining_message =
           <<"c", "o", "n", "f", "i", "g", " ", " ", "s", "h", "o", "w", " ", "x">>
    /\ Unwrap(find_out).kind = "Some"
    /\ Unwrap(find_out).command = <<2, 1>>
    /\ Unwrap(find_out).parent_commands = <<<<2>>>>
    /\ Unwrap(find_out).args = <<"x">>

\* The number of levels of a command tree.
RECURSIVE Depth(_)
Depth(commands) ==
    IF commands = <<>> THEN 0
    ELSE LET deepest == CHOOSE i \in 1..Len(commands) :
                            \A j \in 1..Len(commands) :
                                Depth(commands[j].subcommands) <= Depth(commands[i].subcommands)
         IN  1 + Depth(commands[deepest].subcommands)

\* C38: find_command is total: for every text and both values of the
\* case-insensitivity flag it returns a match or not-found without faulting,
\* and the command it returns is at most as many levels down as the tree is
\* deep.
C38_FindCommandTotal ==
    find_out /= None =>
        /\ Unwrap(find_out).kind \in {"Some", "None"}
        /\ Len(Unwrap(find_out).command) <= Depth(Commands)

(***************************************************************************)
(* Claims about qualified names, checked under SpecTree.                   *)
(***************************************************************************)

\* The paths of the nodes of a command list.
RECURSIVE PathsOf(_)
PathsOf(commands) ==
    UNION {{<<i>>} \cup {<<i>> \o p : p \in PathsOf(commands[i].subcommands)} :
              i \in 1..Len(commands)}

\* The names of the nodes on a path, from the top-level command down to the
\* path's node, joined by one space.
RECURSIVE JoinedNames(_, _)
JoinedNames(commands, path) ==
    IF Len(path) = 1
    THEN CommandAt(commands, path).name
    ELSE JoinedNames(commands, SubSeq(path, 1, Len(path) - 1))
             \o <<" ">> \o CommandAt(commands, path).name

\* C33: once set_qualified_names has run, the qualified name of every node is
\* the names of its ancestors from the top-level command down and its own
\* name, joined by single spaces, a top-level command's being its name; a
\* further run changes no qualified name.
C33_QualifiedNames ==
    /\ tree_calls >= 1 =>
           \A path \in PathsOf(tree_commands) :
               CommandAt(tree_commands, path).qualified_name =
                   JoinedNames(tree_commands, path)
    /\ tree_calls >= 1 => SetQualifiedNames(tree_commands) = tree_commands

\* set_qualified_names has run twice on a tree three levels deep.
C33_Witness ==
    /\ tree_calls = 2
    /\ \E path \in PathsOf(tree_commands) :
           /\ Len(path) = 3
           /\ CommandAt(tree_commands, path).qualified_name = <<"a", " ", "c", "d", " ", "b">>

(***************************************************************************)
(* Claims about the purge task, checked under SpecFw.                      *)
(***************************************************************************)

\* The purges performed after the Framework was dropped.
PurgesAfterDrop == {i \in DOMAIN fw_purges : fw_purges[i].dropped}

\* There is a task exactly when an edit tracker is configured and init ran.
StartedOnlyIfConfigured ==
    /\ fw_purge_task /= None => fw_edit_tracker
    /\ fw_edit_tracker /\ fw_state = "initialized" => fw_purge_task /= None
    /\ ~fw_edit_tracker => fw_purges = <<>>

\* Two purges in a row are PurgeSleepSecs seconds apart.
FixedPeriod ==
    \A i \in DOMAIN fw_purges :
        i > 1 => fw_purges[i].at = fw_purges[i - 1].at + PurgeSleepSecs

\* After the drop the task is cancelled, or runs to its next suspension
\* point and ends there; the drop is possible whatever invocations run.
StoppedByDrop ==
    /\ fw_state = "dropped" /\ fw_purge_task /= None =>
           /\ Unwrap(fw_purge_task).aborted
           /\ Unwrap(fw_purge_task).pc \in {"running", "cancelled"}
    /\ fw_state /= "dropped" => ENABLED DropFramework

\* C34, as stated: the purge task is started only when an edit tracker is
\* configured, purges every 60 seconds, and after the Framework is dropped
\* no purge is performed at all; the drop waits for no invocation.
C34_PurgeTask_AsStated ==
    /\ StartedOnlyIfConfigured
    /\ FixedPeriod
    /\ StoppedByDrop
    /\ PurgesAfterDrop = {}

\* C34, amended: the purge task is started only when an edit tracker is
\* configured, purges every 60 seconds, and is aborted when the Framework is
\* dropped without waiting for any invocation: after the drop no purge
\* begins, and at most the one purge that was running on a worker when the
\* drop happened is still performed, as the last one.
C34_PurgeTask ==
    /\ StartedOnlyIfConfigured
    /\ FixedPeriod
    /\ StoppedByDrop
    /\ Cardinality(PurgesAfterDrop) <= 1
    /\ PurgesAfterDrop \subseteq {Len(fw_purges)}
    /\ PurgesAfterDrop /= {} => Unwrap(fw_purge_task).pc = "cancelled"

\* The Framework was dropped with invocations in flight after the task had
\* purged at least twice, and the task is cancelled.
C34_Witness ==
    /\ fw_state = "dropped"
    /\ fw_inflight > 0
    /\ Len(fw_purges) >= 2
    /\ fw_purge_task /= None
    /\ Unwrap(fw_purge_task).pc = "cancelled"

(***************************************************************************)
(* Claims about the tracker's bounded lifetime, checked under SpecLive.    *)
(***************************************************************************)

\* C40: with the purge task running and time advancing, an entry does not
\* stay: whatever is tracked, re-registered or edited meanwhile, for every
\* message there is again and again a time when the cache holds no entry of
\* it.
C40_BoundedLifetime ==
    \A id \in MsgIds : []<>(~HasEntry(cache, id))

\* Under a timespan that does not wrap, the last purge removed an entry and
\* the cache is empty.
C40_Witness ==
    /\ last.op = "purge"
    /\ last.found
    /\ cache = <<>>
    /\ now > 0
    /\ AsI64(AsSecs(max_duration)) > 0

=============================================================================
